---- MODULE Spec2Model ----
(***************************************************************************)
(* A model of the Texas Hold'em rules engine of src/src/game.rs: the       *)
(* start_game loop, one hand (deal_hole_cards, deal_flop,                  *)
(* deal_single_card), the betting loop circle_players with ask_player,     *)
(* the ledger (make_player_bet, add_to_all_bets_up_to_highest,             *)
(* handle_all_in) and the payout determine_winner.                         *)
(*                                                                         *)
(* One step of the model is one iteration of the loop of circle_players    *)
(* (one decision read from the player), or one of the steps between two    *)
(* betting rounds.  The deck, the hole cards and the community cards are   *)
(* sets and sequences of cards; a showdown draws a ranking of the players' *)
(* best hands.  The hand evaluator of src/src/game/hand.rs (check_hand,    *)
(* the order of HandScore, get_highest_hand_score) is modelled as          *)
(* operators, applied by the actions CheckHand and GetHighestHandScore.    *)
(***************************************************************************)
EXTENDS Integers, Sequences, FiniteSets, TLC

\* ---------------------------------------------------------------- bounds
\* Number of seated players (Game::add_player calls before start_game).
NumPlayers == 3
\* Largest stack a player is seated with (Player::new's money).
MaxStack == 3
\* Largest amount a player types at the "Raise by how much?" prompt.
MaxRaise == 2
\* Hands played before the model stops following start_game's loop.
MaxHands == 1
\* Decisions the players type on one street of a whole hand before the
\* model stops following the street (SpecPreflop follows the first street
\* to the iteration cap instead).
MaxAsked == 3
\* Cards of the deck every random draw is followed for in SpecDeal (the
\* other specifications follow one).
DrawChoices == 2
\* Connections the accept loop spawns a task for.
NumConnections == 3
\* Values the random generator draws ids from (u128 in the program).
MaxId == 3

\* ------------------------------------------------------ program constants
\* utils.rs:49, handed to Game::new.
big_blind == 2
\* game.rs:238, start_game's bound on its round counter.
max_round == 5
\* game.rs:776, the iteration cap of circle_players.
count_cap == 20

PlayerIds == 1 .. NumPlayers
\* Option::None of prev_player, and the initial last_player_to_raise (0).
NoPlayer == 0

Streets == {"preflop", "flop", "turn", "river"}
PostFlop == {"flop", "turn", "river"}
EndOf(street) == "end_" \o street
StreetEnds == {"end_preflop", "end_flop", "end_turn", "end_river"}

\* ----------------------------------------------------------------- helpers
\* HashMap::get(k).unwrap_or(&0)
Get(m, k) == IF k \in DOMAIN m THEN m[k] ELSE 0

\* HashMap::insert(k, v)
Put(m, k, v) == [x \in (DOMAIN m) \cup {k} |-> IF x = k THEN v ELSE m[x]]

\* An empty HashMap / BTreeMap.
EmptyMap == [x \in {} |-> 0]

RECURSIVE SumOver(_, _)
SumOver(f, S) ==
    IF S = {} THEN 0
    ELSE LET x == CHOOSE y \in S : TRUE IN f[x] + SumOver(f, S \ {x})

\* Iterator::sum over a map's values.
SumValues(m) == SumOver(m, DOMAIN m)

MaxOf(S) == CHOOSE x \in S : \A y \in S : y <= x

\* std::cmp::max
Max2(a, b) == IF a >= b THEN a ELSE b

\* VecDeque::rotate_left(1)
RotateLeft(q) == IF Len(q) = 0 THEN q ELSE Append(Tail(q), Head(q))

RECURSIVE SelectSeq2(_, _)
SelectSeq2(q, S) ==
    IF Len(q) = 0 THEN <<>>
    ELSE IF Head(q) \in S THEN <<Head(q)>> \o SelectSeq2(Tail(q), S)
    ELSE SelectSeq2(Tail(q), S)

SeqToSet(q) == {q[i] : i \in 1 .. Len(q)}

\* ------------------------------------------------------------------ cards
\* enum Suit, in declaration order.
Suits == <<"Hearts", "Diamonds", "Clubs", "Spades">>

\* Card::new
Card(suit, value) == [suit |-> suit, value |-> value]

\* The cards in the order Card::new_full_deck inserts them: for every
\* suit, the values 2..=14.
cards_in_order ==
    [i \in 1 .. 13 * Len(Suits) |->
        Card(Suits[((i - 1) \div 13) + 1], ((i - 1) % 13) + 2)]

\* Card::new_full_deck
new_full_deck == SeqToSet(cards_in_order)

\* The cards "deck.iter().choose(&mut rand::thread_rng())" may return when
\* the draw is followed for the first width cards left in the deck (looked
\* for from place i of cards_in_order).
RECURSIVE drawable(_, _, _)
drawable(the_deck, i, width) ==
    IF width = 0 \/ i > Len(cards_in_order) THEN {}
    ELSE IF cards_in_order[i] \in the_deck
    THEN {cards_in_order[i]} \cup drawable(the_deck, i + 1, width - 1)
    ELSE drawable(the_deck, i + 1, width)

\* A draw that leaves the card in the deck ("deck.remove(&card)" left
\* out): a variant the property of C27 excludes.
RECURSIVE draw_cards_without_remove(_, _, _)
draw_cards_without_remove(the_deck, n, width) ==
    IF n = 0 THEN {[cards |-> <<>>, deck |-> the_deck]}
    ELSE UNION {{[cards |-> <<card>> \o rest.cards, deck |-> rest.deck] :
                    rest \in draw_cards_without_remove(the_deck, n - 1,
                                                       width)} :
                card \in drawable(the_deck, 1, width)}

\* n times "choose a card, push it, deck.remove(&card)": the sequences of
\* cards that may be drawn, each with the deck it leaves.
RECURSIVE draw_cards(_, _, _)
draw_cards(the_deck, n, width) ==
    IF n = 0 THEN {[cards |-> <<>>, deck |-> the_deck]}
    ELSE UNION {{[cards |-> <<card>> \o rest.cards, deck |-> rest.deck] :
                    rest \in draw_cards(the_deck \ {card}, n - 1, width)} :
                card \in drawable(the_deck, 1, width)}

VARIABLES
    \* ---- struct Game
    players,               \* VecDeque<PlayerId>: the seating order
    money,                 \* player_id_to_player[p].money
    players_in_round,      \* HashSet<PlayerId>
    turn_queue,            \* VecDeque<PlayerId>
    community_cards,       \* Vec<Card>
    hole_cards,            \* player_id_to_player[p].hole_cards
    curr_bet,
    last_player_to_raise,
    bet_this_round,        \* HashSet<PlayerId>
    has_raised,
    bets,                  \* HashMap<PlayerId, i32>
    pots,                  \* BTreeMap<i32, HashSet<PlayerId>>
    dealer_location,
    \* ---- locals of start_game, play_one_round and circle_players
    round,                 \* start_game's counter
    prev_contributions,    \* HashMap<PlayerId, i32> of circle_players
    prev_player,           \* Option<PlayerId> of circle_players
    count,                 \* circle_players' iteration counter
    has_winner,            \* what circle_players returned
    pc,                    \* where the program is
    removed,               \* new_full_deck minus the deck of play_one_round
    \* ---- history of the hand, read by the properties only
    start_money,           \* every stack when the hand started
    folded,                \* who typed "fold" in this hand
    asked,                 \* decisions read on this street
    acted,                 \* who decided since the last raise of this street
    all_checked,           \* every decision of this street was a check
    paid,                  \* what determine_winner paid to each player
    evaluated,             \* determine_winner compared hands
    \* ---- the hand evaluator of hand.rs, called on its own
    hands,                 \* the card sets handed to the evaluator
    scores,                \* the HandScore returned for each of them
    \* ---- the server of main.rs
    rng,                   \* Arc<Mutex<OsRng>>: the connection holding it
    client_ids,            \* Arc<Mutex<HashSet<u128>>>: guard and set
    game_ids,              \* Arc<Mutex<HashMap<u128, Game>>>: guard and keys
    connections            \* the task of every connection

gameVars == <<players, money, players_in_round, turn_queue, community_cards,
              hole_cards, curr_bet, last_player_to_raise, bet_this_round,
              has_raised, bets, pots, dealer_location>>
localVars == <<round, prev_contributions, prev_player, count, has_winner, pc,
               removed>>

\* The deck of play_one_round: a HashSet<Card> that starts as
\* Card::new_full_deck and loses the cards drawn.
deck == new_full_deck \ removed
historyVars == <<start_money, folded, asked, acted, all_checked, paid, evaluated>>
evalVars == <<hands, scores>>
serverVars == <<rng, client_ids, game_ids, connections>>
vars == <<gameVars, localVars, historyVars, evalVars, serverVars>>

Connections == 1 .. NumConnections
Ids == 1 .. MaxId
\* No connection holds the mutex; no id yet.
Nobody == 0
NoId == 0

\* main before its accept loop: the mutexes are free and the registries
\* empty; every connection the loop will accept waits for its handshake.
ServerStarted ==
    /\ rng = Nobody
    /\ client_ids = [guard |-> Nobody, set |-> {}]
    /\ game_ids = [guard |-> Nobody, map |-> {}]
    /\ connections = [c \in Connections |->
                        [at |-> "handshake", random_value |-> NoId,
                         client_id |-> NoId, game_id |-> NoId]]

NoMoney == [p \in PlayerIds |-> 0]

\* Game::new followed by NumPlayers calls of add_player, before start_game.
Init ==
    /\ players = [i \in 1 .. NumPlayers |-> i]
    /\ money \in [PlayerIds -> 1 .. MaxStack]
    /\ players_in_round = {}
    /\ turn_queue = <<>>
    /\ community_cards = <<>>
    /\ hole_cards = [p \in PlayerIds |-> <<>>]
    /\ curr_bet = big_blind
    /\ last_player_to_raise = 0
    /\ bet_this_round = {}
    /\ has_raised = FALSE
    /\ bets = EmptyMap
    /\ pots = EmptyMap
    /\ dealer_location = 0
    /\ round = 1
    /\ prev_contributions = EmptyMap
    /\ prev_player = NoPlayer
    /\ count = 0
    /\ has_winner = TRUE
    /\ pc = "idle"
    /\ start_money = money
    /\ folded = {}
    /\ asked = 0
    /\ acted = {}
    /\ all_checked = TRUE
    /\ paid = NoMoney
    /\ evaluated = FALSE
    /\ removed = {}
    /\ hands = <<>>
    /\ scores = <<>>
    /\ ServerStarted

\* ------------------------------------------------------------- the ledger
\* The fields of Game that ask_player and what it calls may change, with
\* circle_players' prev_contributions; panicked says a panic!/expect fired.
Cur ==
    [money |-> money, curr_bet |-> curr_bet,
     last_player_to_raise |-> last_player_to_raise,
     bets |-> bets, pots |-> pots,
     players_in_round |-> players_in_round, turn_queue |-> turn_queue,
     bet_this_round |-> bet_this_round, has_raised |-> has_raised,
     prev_contributions |-> prev_contributions, panicked |-> FALSE]

\* Game::add_to_all_bets_up_to_highest, on the pots map.
add_to_all_bets_up_to_highest(the_pots, player_id, highest_bet) ==
    LET with_key == IF highest_bet \in DOMAIN the_pots
                    THEN the_pots
                    ELSE Put(the_pots, highest_bet, {})
    IN  [key \in DOMAIN with_key |->
            IF key <= highest_bet
            THEN with_key[key] \cup {player_id}
            ELSE with_key[key]]

\* A make_player_bet that takes every bet as the new curr_bet, without the
\* "if bet > self.curr_bet" test: a variant the property of C10 excludes.
make_player_bet_always_sets_curr_bet(s, player_id, bet, prev_contribution) ==
    [s EXCEPT
        !.money = [@ EXCEPT ![player_id] = @ - (bet - prev_contribution)],
        !.curr_bet = bet,
        !.last_player_to_raise = player_id,
        !.bets = Put(@, player_id, Get(@, player_id) + bet),
        !.pots = IF bet # 0
                 THEN add_to_all_bets_up_to_highest(@, player_id, bet)
                 ELSE @]

\* Game::make_player_bet.
make_player_bet(s, player_id, bet, prev_contribution) ==
    LET difference == bet - prev_contribution
        is_higher == bet > s.curr_bet
    IN  [s EXCEPT
            !.money = [@ EXCEPT ![player_id] = @ - difference],
            !.curr_bet = IF is_higher THEN bet ELSE @,
            !.last_player_to_raise = IF is_higher THEN player_id ELSE @,
            !.bets = Put(@, player_id, Get(@, player_id) + bet),
            !.pots = IF bet # 0
                     THEN add_to_all_bets_up_to_highest(@, player_id, bet)
                     ELSE @]

\* Game::handle_all_in.
handle_all_in(s, player_id, prev_contribution) ==
    LET all_in_amount == s.money[player_id] + Get(s.bets, player_id)
        b == make_player_bet(s, player_id, all_in_amount, prev_contribution)
        higher_bets == {pot \in DOMAIN b.pots : pot > all_in_amount}
        players_with_higher_bets == UNION {b.pots[pot] : pot \in higher_bets}
    IN  IF players_with_higher_bets = {} THEN b
        ELSE IF all_in_amount \notin DOMAIN b.pots
        THEN [b EXCEPT !.panicked = TRUE]
        ELSE [b EXCEPT !.pots = [@ EXCEPT ![all_in_amount] =
                                    @ \cup players_with_higher_bets]]

\* ------------------------------------------------------------- ask_player
\* A fold that leaves the player in players_in_round: a variant the
\* property of C8 excludes.
fold_keeps_player_in_round(popped, player_id) == popped

\* A fold that puts the player back at the end of turn_queue: a variant the
\* property of C9 excludes.
fold_requeues_player(popped, player_id) ==
    [popped EXCEPT !.players_in_round = @ \ {player_id},
                   !.turn_queue = Append(@, player_id)]

\* The "fold" arm of ask_player, after the pop_front.
fold_branch(popped, player_id) ==
    [popped EXCEPT !.players_in_round = @ \ {player_id}]

\* A raise that records the amount as the street contribution of the
\* player but leaves curr_bet as it was: a variant the property of C35
\* excludes.
raise_branch_keeps_curr_bet(popped, player_id, prev_contribution, input) ==
    IF input < popped.curr_bet THEN [popped EXCEPT !.panicked = TRUE]
    ELSE LET b == make_player_bet(popped, player_id, input, prev_contribution)
         IN  [b EXCEPT
                !.curr_bet = popped.curr_bet,
                !.prev_contributions = Put(@, player_id, input),
                !.bet_this_round = @ \cup {player_id},
                !.turn_queue = Append(@, player_id),
                !.has_raised = TRUE]

\* The "raise" arm of ask_player, after the pop_front; input is the amount.
raise_branch(popped, player_id, prev_contribution, input) ==
    IF input < popped.curr_bet THEN [popped EXCEPT !.panicked = TRUE]
    ELSE LET this_bet == input - prev_contribution
             b == make_player_bet(popped, player_id, input, prev_contribution)
         IN  [b EXCEPT
                !.prev_contributions =
                    Put(@, player_id, prev_contribution + this_bet),
                !.bet_this_round = @ \cup {player_id},
                !.turn_queue = Append(@, player_id),
                !.has_raised = TRUE]

\* The default arm of ask_player (check or call), after the pop_front.
check_call_branch(popped, player_id, prev_contribution) ==
    LET this_bet == popped.curr_bet - prev_contribution
        b == make_player_bet(popped, player_id, popped.curr_bet,
                             prev_contribution)
    IN  [b EXCEPT
            !.prev_contributions =
                Put(@, player_id, prev_contribution + this_bet),
            !.bet_this_round = @ \cup {player_id},
            !.turn_queue = Append(@, player_id)]

\* Game::ask_player: decision is the line read from the player, input the
\* amount read after "raise".
ask_player(s, decision, input) ==
    LET player_id == Head(s.turn_queue)
        popped == [s EXCEPT !.turn_queue = Tail(@)]
        curr_money == s.money[player_id]
        prev_contribution == Get(s.prev_contributions, player_id)
    IN  IF curr_money = 0
        THEN [popped EXCEPT !.turn_queue = Append(@, player_id)]
        ELSE CASE decision = "fold" -> fold_branch(popped, player_id)
               [] decision = "raise" ->
                    raise_branch(popped, player_id, prev_contribution, input)
               [] decision = "all in" ->
                    handle_all_in(popped, player_id, prev_contribution)
               [] OTHER ->
                    check_call_branch(popped, player_id, prev_contribution)

\* The two break conditions of circle_players, read after ask_player.
break_condition(s, the_prev_player) ==
    LET player_id == Head(s.turn_queue) IN
    /\ the_prev_player # NoPlayer
    /\ \/ /\ s.has_raised
          /\ player_id = s.last_player_to_raise
          /\ Cardinality(s.bet_this_round) >= Len(s.turn_queue)
       \/ /\ the_prev_player = s.last_player_to_raise
          /\ Get(s.prev_contributions, player_id) = s.curr_bet
          /\ Cardinality(s.bet_this_round) >= Len(s.turn_queue)

\* Writes the fields of a record of the shape of Cur back to the state.
Commit(s) ==
    /\ money' = s.money
    /\ curr_bet' = s.curr_bet
    /\ last_player_to_raise' = s.last_player_to_raise
    /\ bets' = s.bets
    /\ pots' = s.pots
    /\ players_in_round' = s.players_in_round
    /\ turn_queue' = s.turn_queue
    /\ bet_this_round' = s.bet_this_round
    /\ has_raised' = s.has_raised
    /\ prev_contributions' = s.prev_contributions

\* -------------------------------------------------------- deal_hole_cards
\* A deal without the "if player.get_money() == 0 { continue }" test: every
\* seated player is dealt in.  A variant the property of C38 excludes.
dealt_in_everyone(seating, the_money) == seating

\* The players deal_hole_cards deals in: those of the seating whose money
\* is not 0, in seating order.
dealt_in(seating, the_money) ==
    SelectSeq2(seating, {p \in PlayerIds : the_money[p] # 0})

\* Game::deal_hole_cards from the deal to the call of circle_players: the
\* dealt players join turn_queue and players_in_round, then the two blinds.
deal_hole_cards(s, seating) ==
    LET dealt == dealt_in(seating, s.money)
        s0 == [s EXCEPT !.turn_queue = @ \o dealt,
                        !.players_in_round = @ \cup SeqToSet(dealt),
                        !.prev_contributions = EmptyMap]
    IN  IF Len(s0.turn_queue) = 0 THEN [s0 EXCEPT !.panicked = TRUE]
        ELSE
        LET small == Head(s0.turn_queue)
            s1 == make_player_bet([s0 EXCEPT !.turn_queue = Tail(@)],
                                  small, big_blind \div 2, 0)
            s2 == [s1 EXCEPT
                    !.prev_contributions = Put(@, small, big_blind \div 2),
                    !.last_player_to_raise = small,
                    !.turn_queue = Append(@, small)]
            big == Head(s2.turn_queue)
            s3 == make_player_bet([s2 EXCEPT !.turn_queue = Tail(@)],
                                  big, big_blind, 0)
        IN  [s3 EXCEPT
                !.prev_contributions = Put(@, big, big_blind),
                !.last_player_to_raise = big,
                !.turn_queue = Append(@, big),
                !.has_raised = FALSE]

\* The draw loop of deal_hole_cards: two cards drawn and removed from the
\* deck for every dealt player, in seating order, then set_hole_cards.  The
\* outcomes are the decks and hole cards the draws may leave.
RECURSIVE draw_hole_cards(_, _, _, _)
draw_hole_cards(the_deck, the_hole_cards, dealt, width) ==
    IF Len(dealt) = 0
    THEN {[deck |-> the_deck, hole_cards |-> the_hole_cards]}
    ELSE UNION {draw_hole_cards(
                    two.deck,
                    [the_hole_cards EXCEPT ![Head(dealt)] = two.cards],
                    Tail(dealt), width) :
                two \in draw_cards(the_deck, 2, width)}

\* start_game's loop condition, play_one_round (a full deck), deal_hole_cards
\* up to the first iteration of circle_players (turn_queue is not empty
\* there); hand_limit is the number of hands followed, width the number of
\* cards every draw is followed for.
StartHand(hand_limit, width) ==
    /\ pc = "idle"
    /\ Len(players) > 1
    /\ round < max_round
    /\ round <= hand_limit
    /\ \E drawn \in draw_hole_cards(new_full_deck, hole_cards,
                                    dealt_in(players, money), width) :
        /\ removed' = new_full_deck \ drawn.deck
        /\ hole_cards' = drawn.hole_cards
    /\ LET s == deal_hole_cards(Cur, players) IN
        /\ Commit([s EXCEPT !.bet_this_round =
                        IF s.panicked THEN @ ELSE {}])
        /\ pc' = IF s.panicked THEN "panicked" ELSE "preflop"
        /\ prev_player' = IF s.panicked THEN NoPlayer
                          ELSE s.last_player_to_raise
    /\ count' = 0
    /\ start_money' = money
    /\ folded' = {}
    /\ asked' = 0
    /\ acted' = {}
    /\ all_checked' = TRUE
    /\ paid' = NoMoney
    /\ evaluated' = FALSE
    /\ UNCHANGED <<players, community_cards, dealer_location, round,
                   has_winner, evalVars,
                   serverVars>>

\* --------------------------------------------------------- circle_players
AtLoopHead ==
    /\ pc \in Streets
    /\ count # count_cap
    /\ Cardinality(players_in_round) # 1

\* The player at the front of turn_queue is asked for a decision; limit is
\* the number of decisions followed on one street.
Prompted(limit) ==
    /\ AtLoopHead
    /\ money[Head(turn_queue)] # 0
    /\ asked < limit

\* An iteration of the loop of circle_players without "count += 1": a
\* variant the property of C31 excludes.
Decide_without_count(decision, input) ==
    LET player_id == Head(turn_queue)
        prompted == money[player_id] # 0
        prev_contribution == Get(prev_contributions, player_id)
        s == ask_player(Cur, decision, input)
    IN
    /\ Commit(s)
    /\ IF s.panicked
       THEN /\ pc' = "panicked"
            /\ UNCHANGED <<prev_player, count, has_winner>>
       ELSE IF Len(s.turn_queue) = 0 \/ break_condition(s, prev_player)
       THEN /\ pc' = EndOf(pc)
            /\ has_winner' = TRUE
            /\ UNCHANGED <<prev_player, count>>
       ELSE /\ pc' = pc
            /\ prev_player' = Head(s.turn_queue)
            /\ count' = count
            /\ UNCHANGED has_winner
    /\ asked' = IF prompted THEN asked + 1 ELSE asked
    /\ folded' = IF prompted /\ decision = "fold"
                 THEN folded \cup {player_id} ELSE folded
    /\ acted' = IF ~prompted \/ decision = "fold" \/ s.panicked THEN acted
                ELSE IF s.curr_bet > curr_bet THEN {player_id}
                ELSE acted \cup {player_id}
    /\ all_checked' = IF ~prompted THEN all_checked
                      ELSE /\ all_checked
                           /\ decision = "check"
                           /\ curr_bet - prev_contribution = 0
    /\ UNCHANGED <<players, community_cards, hole_cards, dealer_location,
                   round, removed, start_money, paid, evaluated, evalVars,
                   serverVars>>

\* One iteration of the loop of circle_players: ask_player, then the
\* empty-queue return, the break conditions, prev_player and count.
Decide(decision, input) ==
    LET player_id == Head(turn_queue)
        prompted == money[player_id] # 0
        prev_contribution == Get(prev_contributions, player_id)
        s == ask_player(Cur, decision, input)
    IN
    /\ Commit(s)
    /\ IF s.panicked
       THEN /\ pc' = "panicked"
            /\ UNCHANGED <<prev_player, count, has_winner>>
       ELSE IF Len(s.turn_queue) = 0 \/ break_condition(s, prev_player)
       THEN /\ pc' = EndOf(pc)
            /\ has_winner' = TRUE
            /\ UNCHANGED <<prev_player, count>>
       ELSE /\ pc' = pc
            /\ prev_player' = Head(s.turn_queue)
            /\ count' = count + 1
            /\ UNCHANGED has_winner
    /\ asked' = IF prompted THEN asked + 1 ELSE asked
    /\ folded' = IF prompted /\ decision = "fold"
                 THEN folded \cup {player_id} ELSE folded
    /\ acted' = IF ~prompted \/ decision = "fold" \/ s.panicked THEN acted
                ELSE IF s.curr_bet > curr_bet THEN {player_id}
                ELSE acted \cup {player_id}
    /\ all_checked' = IF ~prompted THEN all_checked
                      ELSE /\ all_checked
                           /\ decision = "check"
                           /\ curr_bet - prev_contribution = 0
    /\ UNCHANGED <<players, community_cards, hole_cards, dealer_location,
                   round, removed, start_money, paid, evaluated, evalVars,
                   serverVars>>

\* ask_player's "Skipping your turn because you went all in."
SkipTurn ==
    /\ AtLoopHead
    /\ money[Head(turn_queue)] = 0
    /\ Decide("skip", 0)

Fold(limit) ==
    /\ Prompted(limit)
    /\ Decide("fold", 0)

\* A raise to an amount the code accepts.
Raise(limit) ==
    /\ Prompted(limit)
    /\ \E input \in curr_bet .. MaxRaise : Decide("raise", input)

\* A raise to an amount below curr_bet: ask_player panics.
RejectedRaise(limit) ==
    /\ Prompted(limit)
    /\ \E input \in 0 .. MaxRaise :
        /\ input < curr_bet
        /\ Decide("raise", input)

AllIn(limit) ==
    /\ Prompted(limit)
    /\ Decide("all in", 0)

CheckCall(limit) ==
    /\ Prompted(limit)
    /\ Decide("check", 0)

\* "if count == 20 {break}": circle_players returns true.
CountCap ==
    /\ pc \in Streets
    /\ count = count_cap
    /\ pc' = EndOf(pc)
    /\ has_winner' = TRUE
    /\ UNCHANGED <<gameVars, round, prev_contributions, prev_player, count,
                   removed, historyVars, evalVars,
                   serverVars>>

\* "if self.players_in_round.len() == 1 {return false}".
OnePlayerLeft ==
    /\ pc \in Streets
    /\ count # count_cap
    /\ Cardinality(players_in_round) = 1
    /\ pc' = EndOf(pc)
    /\ has_winner' = FALSE
    /\ UNCHANGED <<gameVars, round, prev_contributions, prev_player, count,
                   removed, historyVars, evalVars,
                   serverVars>>

\* An entry of circle_players that takes over the contributions of the
\* street before (as if called with Some(prev_contributions)): a variant
\* the property of C29 excludes.
EnterStreet_keeps_contributions(street) ==
    /\ IF Len(turn_queue) = 0
       THEN /\ pc' = EndOf(street)
            /\ UNCHANGED bet_this_round
       ELSE /\ pc' = street
            /\ bet_this_round' = {}
    /\ has_winner' = TRUE
    /\ prev_contributions' = prev_contributions
    /\ prev_player' = NoPlayer
    /\ count' = 0
    /\ asked' = 0
    /\ acted' = {}
    /\ all_checked' = TRUE

\* The entry of circle_players(None, None, false) on a later street.
EnterStreet(street) ==
    /\ IF Len(turn_queue) = 0
       THEN /\ pc' = EndOf(street)
            /\ UNCHANGED bet_this_round
       ELSE /\ pc' = street
            /\ bet_this_round' = {}
    /\ has_winner' = TRUE
    /\ prev_contributions' = EmptyMap
    /\ prev_player' = NoPlayer
    /\ count' = 0
    /\ asked' = 0
    /\ acted' = {}
    /\ all_checked' = TRUE

\* The end of deal_hole_cards (curr_bet = 0), then deal_flop up to the
\* first iteration of its circle_players.
DealFlop(width) ==
    /\ pc = "end_preflop"
    /\ has_winner
    /\ curr_bet' = 0
    /\ \E three \in draw_cards(deck, 3, width) :
        /\ community_cards' = three.cards
        /\ removed' = new_full_deck \ three.deck
    /\ EnterStreet("flop")
    /\ UNCHANGED <<players, money, players_in_round, turn_queue, hole_cards,
                   last_player_to_raise, has_raised, bets, pots,
                   dealer_location, round, start_money, folded, paid,
                   evaluated, evalVars,
                   serverVars>>

\* A deal_single_card that assigns the card drawn to community_cards
\* instead of pushing it: a variant the property of C30 excludes.
DealSingleCard_replaces_board(width) ==
    /\ pc \in {"end_flop", "end_turn"}
    /\ has_winner
    /\ curr_bet' = 0
    /\ \E one \in draw_cards(deck, 1, width) :
        /\ community_cards' = one.cards
        /\ removed' = new_full_deck \ one.deck
    /\ EnterStreet(IF pc = "end_flop" THEN "turn" ELSE "river")
    /\ UNCHANGED <<players, money, players_in_round, turn_queue, hole_cards,
                   last_player_to_raise, has_raised, bets, pots,
                   dealer_location, round, start_money, folded, paid,
                   evaluated, evalVars,
                   serverVars>>

\* The end of the previous deal (curr_bet = 0), then deal_single_card up to
\* the first iteration of its circle_players: the turn, then the river.
DealSingleCard(width) ==
    /\ pc \in {"end_flop", "end_turn"}
    /\ has_winner
    /\ curr_bet' = 0
    /\ \E one \in draw_cards(deck, 1, width) :
        /\ community_cards' = community_cards \o one.cards
        /\ removed' = new_full_deck \ one.deck
    /\ EnterStreet(IF pc = "end_flop" THEN "turn" ELSE "river")
    /\ UNCHANGED <<players, money, players_in_round, turn_queue, hole_cards,
                   last_player_to_raise, has_raised, bets, pots,
                   dealer_location, round, start_money, folded, paid,
                   evaluated, evalVars,
                   serverVars>>

\* ------------------------------------------------------- determine_winner
\* The rankings a showdown may find: strength[p] orders the best hands
\* (get_highest_hand_score) of the players.
Rankings ==
    {f \in [PlayerIds -> 1 .. NumPlayers] :
        \A p, q \in PlayerIds : p # q => f[p] # f[q]}

\* OnePlayerAllPossibleCards::get_winner: the candidate with the best hand
\* (NoPlayer when there is no candidate and the call returns).
get_winner(candidates, strength) ==
    IF candidates = {} THEN NoPlayer
    ELSE CHOOSE p \in candidates :
            \A q \in candidates : strength[q] <= strength[p]

\* The tier loop of determine_winner: the winner of every key of pots among
\* the players of that tier who are still in players_in_round.
tier_winners(strength) ==
    [pot \in DOMAIN pots |->
        get_winner(pots[pot] \cap players_in_round, strength)]

\* The inner loop of determine_winner's payout for one player: the tiers
\* not above the player's bet, from the highest down.
RECURSIVE settle_tiers(_, _, _, _, _)
settle_tiers(player_id, remaining, winners, sofar, multiplier) ==
    IF remaining = {} THEN sofar * multiplier
    ELSE LET sub_bet == MaxOf(remaining) IN
         IF winners[sub_bet] # player_id
         THEN Max2(sofar - sub_bet, 0) * multiplier
         ELSE IF sub_bet > sofar
         THEN settle_tiers(player_id, remaining \ {sub_bet}, winners,
                           sub_bet, Cardinality(pots[sub_bet]))
         ELSE settle_tiers(player_id, remaining \ {sub_bet}, winners,
                           sofar, multiplier)

\* The players determine_winner's payout loop settles.
settled_players == {p \in DOMAIN bets : p \in players_in_round}

\* money_earned of determine_winner for every player.
money_earned(strength) ==
    IF Cardinality(players_in_round) = 1
    THEN [p \in PlayerIds |->
            IF p \in players_in_round THEN SumValues(bets) ELSE 0]
    ELSE LET winners == tier_winners(strength) IN
         [p \in PlayerIds |->
            IF p \in settled_players
            THEN settle_tiers(p, {x \in DOMAIN pots : x <= bets[p]},
                              winners, 0, 1)
            ELSE 0]

\* determine_winner's seven_cards_vec: the hole cards of the player
\* chained with the community cards.
seven_cards_vec(player_id) == hole_cards[player_id] \o community_cards

\* Whether determine_winner panics: OnePlayerAllPossibleCards::new on a
\* contender without 7 distinct cards, or get_winner on a tier without
\* contender.
showdown_panics(empty_tier_panics) ==
    /\ Cardinality(players_in_round) # 1
    /\ \E pot \in DOMAIN pots :
        IF pots[pot] \cap players_in_round = {}
        THEN empty_tier_panics
        ELSE \E player_id \in pots[pot] \cap players_in_round :
                Cardinality(SeqToSet(seven_cards_vec(player_id))) # 7

\* The end of the last deal (curr_bet = 0) and determine_winner.
DetermineWinner ==
    /\ pc \in StreetEnds
    /\ ~has_winner \/ pc = "end_river"
    /\ curr_bet' = 0
    /\ \E strength \in Rankings, empty_tier_panics \in BOOLEAN :
        IF showdown_panics(empty_tier_panics)
        THEN /\ pc' = "panicked"
             /\ UNCHANGED <<money, paid>>
             /\ evaluated' = TRUE
        ELSE /\ pc' = "settled"
             /\ paid' = money_earned(strength)
             /\ money' = [p \in PlayerIds |-> money[p] + paid'[p]]
             /\ evaluated' = /\ Cardinality(players_in_round) # 1
                             /\ DOMAIN pots # {}
    /\ UNCHANGED <<players, players_in_round, turn_queue, community_cards,
                   hole_cards, last_player_to_raise, bet_this_round,
                   has_raised, bets, pots, dealer_location, round,
                   prev_contributions, prev_player, count, has_winner, removed,
                   start_money, folded, asked, acted, all_checked, evalVars,
                   serverVars>>

\* A clear_round_data without "self.bets.clear()": a variant the property
\* of C20 excludes.
ClearRoundData_keeps_bets ==
    /\ pc = "settled"
    /\ pots' = EmptyMap
    /\ community_cards' = <<>>
    /\ players_in_round' = {}
    /\ turn_queue' = <<>>
    /\ curr_bet' = 0
    /\ bet_this_round' = {}
    /\ players' = RotateLeft(players)
    /\ dealer_location' = (dealer_location + 1) % Len(players)
    /\ round' = round + 1
    /\ pc' = "idle"
    /\ prev_contributions' = EmptyMap
    /\ prev_player' = NoPlayer
    /\ count' = 0
    /\ removed' = {}
    /\ UNCHANGED <<money, hole_cards, bets, last_player_to_raise, has_raised,
                   has_winner, historyVars, evalVars,
                   serverVars>>

\* clear_round_data, the return of play_one_round (its deck is dropped),
\* then the rest of start_game's loop body.
ClearRoundData ==
    /\ pc = "settled"
    /\ pots' = EmptyMap
    /\ community_cards' = <<>>
    /\ players_in_round' = {}
    /\ turn_queue' = <<>>
    /\ curr_bet' = 0
    /\ bet_this_round' = {}
    /\ bets' = EmptyMap
    /\ players' = RotateLeft(players)
    /\ dealer_location' = (dealer_location + 1) % Len(players)
    /\ round' = round + 1
    /\ pc' = "idle"
    /\ prev_contributions' = EmptyMap
    /\ prev_player' = NoPlayer
    /\ count' = 0
    /\ removed' = {}
    /\ UNCHANGED <<money, hole_cards, last_player_to_raise, has_raised,
                   has_winner, historyVars, evalVars,
                   serverVars>>

\* Whole hands, every street followed for MaxAsked decisions.
Next ==
    \/ StartHand(MaxHands, 1)
    \/ SkipTurn
    \/ Fold(MaxAsked)
    \/ Raise(MaxAsked)
    \/ RejectedRaise(MaxAsked)
    \/ AllIn(MaxAsked)
    \/ CheckCall(MaxAsked)
    \/ CountCap
    \/ OnePlayerLeft
    \/ DealFlop(1)
    \/ DealSingleCard(1)
    \/ DetermineWinner
    \/ ClearRoundData

Spec == Init /\ [][Next]_vars

\* The first betting round of a hand (deal_hole_cards' circle_players),
\* followed through every iteration up to the cap of circle_players.
NextPreflop ==
    \/ StartHand(MaxHands, 1)
    \/ SkipTurn
    \/ Fold(count_cap)
    \/ Raise(count_cap)
    \/ RejectedRaise(count_cap)
    \/ AllIn(count_cap)
    \/ CheckCall(count_cap)
    \/ CountCap
    \/ OnePlayerLeft

SpecPreflop == Init /\ [][NextPreflop]_vars

\* The first betting round under weak fairness: the program goes on
\* running and every prompt is answered.
SpecPreflopFair == SpecPreflop /\ WF_vars(NextPreflop)

\* One hand from full stacks with every street followed to the cap of
\* circle_players, the players folding, raising, checking and calling.
NextWholeHand ==
    \/ StartHand(MaxHands, 1)
    \/ SkipTurn
    \/ Fold(count_cap)
    \/ Raise(count_cap)
    \/ CheckCall(count_cap)
    \/ CountCap
    \/ OnePlayerLeft
    \/ DealFlop(1)
    \/ DealSingleCard(1)
    \/ DetermineWinner
    \/ ClearRoundData

SpecWholeHand ==
    /\ Init
    /\ money = [p \in PlayerIds |-> MaxStack]
    /\ [][NextWholeHand]_vars

\* One hand more than Spec: the hands after the first MaxHands are followed
\* from the blinds to the payout along the steps that read no decision.
NextTwoHands ==
    \/ StartHand(MaxHands + 1, 1)
    \/ SkipTurn
    \/ Fold(IF round <= MaxHands THEN MaxAsked ELSE 0)
    \/ Raise(IF round <= MaxHands THEN MaxAsked ELSE 0)
    \/ RejectedRaise(IF round <= MaxHands THEN MaxAsked ELSE 0)
    \/ AllIn(IF round <= MaxHands THEN MaxAsked ELSE 0)
    \/ CheckCall(IF round <= MaxHands THEN MaxAsked ELSE 0)
    \/ CountCap
    \/ OnePlayerLeft
    \/ DealFlop(1)
    \/ DealSingleCard(1)
    \/ DetermineWinner
    \/ ClearRoundData

SpecTwoHands == Init /\ [][NextTwoHands]_vars

\* Two hands with decisions in both: the first hand with folds, all-ins,
\* checks and calls (the decisions that leave players without chips), the
\* hand after it with every decision, one fewer followed on every street.
NextLaterHand ==
    \/ StartHand(MaxHands + 1, 1)
    \/ SkipTurn
    \/ Fold(IF round <= MaxHands THEN MaxAsked ELSE MaxAsked - 1)
    \/ Raise(IF round <= MaxHands THEN 0 ELSE MaxAsked - 1)
    \/ RejectedRaise(IF round <= MaxHands THEN 0 ELSE MaxAsked - 1)
    \/ AllIn(IF round <= MaxHands THEN MaxAsked ELSE MaxAsked - 1)
    \/ CheckCall(IF round <= MaxHands THEN MaxAsked ELSE MaxAsked - 1)
    \/ CountCap
    \/ OnePlayerLeft
    \/ DealFlop(1)
    \/ DealSingleCard(1)
    \/ DetermineWinner
    \/ ClearRoundData

SpecLaterHand == Init /\ [][NextLaterHand]_vars

\* The shape of the state.
\* ========================================================= hand.rs: Hand
\* The values of the cards of a hand in ascending order (values.sort()).
RECURSIVE sorted_values(_)
sorted_values(cards) ==
    IF cards = {} THEN <<>>
    ELSE LET low == CHOOSE card \in cards :
                        \A other \in cards : card.value <= other.value
         IN  <<low.value>> \o sorted_values(cards \ {low})

\* "score += value * (i + 1) as i32 * 14" over an ascending vector, i from 0.
RECURSIVE weighted_sum(_, _)
weighted_sum(values, i) ==
    IF i > Len(values) THEN 0
    ELSE values[i] * i * 14 + weighted_sum(values, i + 1)

RECURSIVE sum_of_values(_)
sum_of_values(cards) ==
    IF cards = {} THEN 0
    ELSE LET card == CHOOSE x \in cards : TRUE
         IN  card.value + sum_of_values(cards \ {card})

highest_value_in(cards) ==
    CHOOSE v \in {card.value : card \in cards} :
        \A card \in cards : card.value <= v

\* Combinations::new(cards, k): the k-card combinations of distinct cards.
Combinations(cards, k) == {S \in SUBSET cards : Cardinality(S) = k}

same_value(cards) == \A a, b \in cards : a.value = b.value

\* What max_by may return for the groups found (the HashSet is iterated in
\* no fixed order, so any group with the highest key), with highest_value
\* the sum of the group's values: the Some(..) outcomes; {} stands for None.
highest_by_max_value(groups) ==
    {[highest_value |-> sum_of_values(group), highest_hand |-> group] :
        group \in {g \in groups :
                      \A other \in groups :
                          highest_value_in(other) <= highest_value_in(g)}}

\* Hand::check_high_card
check_high_card(cards) ==
    {[highest_value |-> card.value, highest_hand |-> {card}] :
        card \in {c \in cards : \A other \in cards : other.value <= c.value}}

\* Hand::check_pair: highest_value is the value of the highest pair.
check_pair(cards) ==
    LET pairs == {S \in Combinations(cards, 2) : same_value(S)}
    IN  {[highest_value |-> highest_value_in(pair), highest_hand |-> pair] :
            pair \in {g \in pairs :
                        \A other \in pairs :
                            highest_value_in(other) <= highest_value_in(g)}}

\* Hand::check_two_pair: two pairs of different values, as four cards.
check_two_pair(cards) ==
    LET pairs == {S \in Combinations(cards, 2) : same_value(S)}
        two_pairs == {two[1] \cup two[2] :
                        two \in {x \in pairs \X pairs :
                                    highest_value_in(x[1]) #
                                        highest_value_in(x[2])}}
    IN  highest_by_max_value(two_pairs)

\* Hand::check_three_of_a_kind
check_three_of_a_kind(cards) ==
    highest_by_max_value({S \in Combinations(cards, 3) : same_value(S)})

\* Hand::check_four_of_a_kind
check_four_of_a_kind(cards) ==
    highest_by_max_value({S \in Combinations(cards, 4) : same_value(S)})

\* Hand::check_full_house: a triplet of one value and the two other cards
\* of one value.
check_full_house(cards) ==
    highest_by_max_value(
        {triplet \cup (cards \ triplet) :
            triplet \in {S \in Combinations(cards, 3) :
                            same_value(S) /\ same_value(cards \ S)}})

\* Hand::check_flush
check_flush(cards) == Cardinality({card.suit : card \in cards}) = 1

\* Hand::check_royal
check_royal(cards) == sorted_values(cards) = <<10, 11, 12, 13, 14>>

\* Hand::check_straight
check_straight(cards) ==
    LET values == sorted_values(cards)
    IN  \/ values = <<2, 3, 4, 5, 14>>
        \/ \A i \in 1 .. Len(values) - 1 : values[i + 1] - values[i] = 1

\* Hand::calculate_score_for_boolean
calculate_score_for_boolean(cards) == weighted_sum(sorted_values(cards), 1)

\* Hand::calculate_score_for_straight: the wheel is scored as 1,2,3,4,5.
calculate_score_for_straight(cards) ==
    LET values == sorted_values(cards)
    IN  IF values = <<2, 3, 4, 5, 14>>
        THEN weighted_sum(<<1, 2, 3, 4, 5>>, 1)
        ELSE weighted_sum(values, 1)

\* Hand::calculate_score_for_full_house
RECURSIVE score_of_counts(_, _)
score_of_counts(cards, keys) ==
    IF keys = {} THEN 0
    ELSE LET key == CHOOSE k \in keys : TRUE
             times == Cardinality({card \in cards : card.value = key})
         IN  (IF times = 3 THEN key * 14 ELSE key)
             + score_of_counts(cards, keys \ {key})

calculate_score_for_full_house(cards) ==
    score_of_counts(cards, {card.value : card \in cards})

\* Multiples that are all 1, as the one of HighCard: a variant the property
\* of C24 excludes.
hand_type_multiples_all_one ==
    [hand_type \in {"HighCard", "Pair", "TwoPair", "ThreeOfAKind", "Straight",
                    "Flush", "FullHouse", "FourOfAKind", "StraightFlush",
                    "RoyalFlush"} |-> 1]

\* check_hand's hand_type_multiples
hand_type_multiples ==
    [hand_type \in {"HighCard", "Pair", "TwoPair", "ThreeOfAKind", "Straight",
                    "Flush", "FullHouse", "FourOfAKind", "StraightFlush",
                    "RoyalFlush"} |->
        CASE hand_type = "HighCard" -> 1
          [] hand_type = "Pair" -> 6188
          [] hand_type = "TwoPair" -> 3848
          [] hand_type = "ThreeOfAKind" -> 624
          [] hand_type = "Straight" -> 1976
          [] hand_type = "Flush" -> 9880
          [] hand_type = "FullHouse" -> 9828
          [] hand_type = "FourOfAKind" -> 10764
          [] hand_type = "StraightFlush" -> 676
          [] hand_type = "RoyalFlush" -> 9100]

\* check_hand's hand_types_ranked, zipped with outputs.
hand_types_ranked ==
    <<"FourOfAKind", "FullHouse", "ThreeOfAKind", "TwoPair", "Pair",
      "HighCard">>

outputs(cards) ==
    <<check_four_of_a_kind(cards), check_full_house(cards),
      check_three_of_a_kind(cards), check_two_pair(cards),
      check_pair(cards), check_high_card(cards)>>

HandScore(hand_type, score) == [hand_type |-> hand_type, score |-> score]

\* The loop of check_hand over zip(outputs, hand_types_ranked): the first
\* Some(..) decides.
score_of_groups(cards) ==
    LET found == outputs(cards)
        first == CHOOSE i \in 1 .. Len(found) :
                    /\ found[i] # {}
                    /\ \A j \in 1 .. i - 1 : found[j] = {}
        hand_type == hand_types_ranked[first]
    IN  IF hand_type = "FullHouse"
        THEN {HandScore(hand_type, calculate_score_for_full_house(cards))}
        ELSE {HandScore(hand_type,
                        weighted_sum(sorted_values(cards \ output.highest_hand),
                                     1)
                        + output.highest_value
                            * hand_type_multiples[hand_type]) :
                output \in found[first]}

\* Hand::check_hand: the HandScores it may return for a hand of 5 cards.
check_hand(cards) ==
    IF check_flush(cards)
    THEN IF check_royal(cards)
         THEN {HandScore("RoyalFlush", calculate_score_for_boolean(cards))}
         ELSE IF check_straight(cards)
         THEN {HandScore("StraightFlush",
                         calculate_score_for_straight(cards))}
         ELSE {HandScore("Flush", calculate_score_for_boolean(cards))}
    ELSE IF check_straight(cards)
         THEN {HandScore("Straight", calculate_score_for_boolean(cards))}
         ELSE score_of_groups(cards)

\* The hand types in the order the enum declares them, a variant the
\* property of C25 excludes.
hand_types_as_declared ==
    <<"HighCard", "Pair", "TwoPair", "ThreeOfAKind", "FourOfAKind",
      "FullHouse", "Flush", "Straight", "StraightFlush", "Royal",
      "RoyalFlush">>

\* impl Ord for HandType: the place in its hand_types vector.
hand_types ==
    <<"HighCard", "Pair", "TwoPair", "ThreeOfAKind", "Straight", "Flush",
      "FullHouse", "FourOfAKind", "StraightFlush", "RoyalFlush">>

position(hand_type) ==
    CHOOSE i \in 1 .. Len(hand_types) : hand_types[i] = hand_type

compare(a, b) ==
    IF a < b THEN "Less" ELSE IF a = b THEN "Equal" ELSE "Greater"

\* impl Ord for HandScore
cmp(self, other) ==
    LET c == compare(position(self.hand_type), position(other.hand_type))
    IN  IF c = "Equal" THEN compare(self.score, other.score) ELSE c

\* The score of one combination, taken without comparing: a variant the
\* property of C26 excludes.
score_of_one_combination(combinations, highest_hand_score) ==
    IF combinations = {} THEN {highest_hand_score}
    ELSE check_hand(CHOOSE c \in combinations : TRUE)

\* The loop of get_highest_hand_score over the combinations left, from
\* the highest score so far: the scores it may end with.
RECURSIVE highest_over(_, _)
highest_over(combinations, highest_hand_score) ==
    IF combinations = {} THEN {highest_hand_score}
    ELSE LET combination == CHOOSE c \in combinations : TRUE
             kept == {IF cmp(hand_score, highest_hand_score) = "Greater"
                      THEN hand_score ELSE highest_hand_score :
                        hand_score \in check_hand(combination)}
         IN  UNION {highest_over(combinations \ {combination}, highest) :
                    highest \in kept}

\* OnePlayerAllPossibleCards::get_highest_hand_score
get_highest_hand_score(all_cards) ==
    highest_over(Combinations(all_cards, 5), HandScore("HighCard", 0))

\* -------------------------------------------------- the evaluator on its own
\* The game has not started; hands are given to the evaluator.
InitEvaluator(inputs) ==
    /\ players = <<>>
    /\ money = NoMoney
    /\ players_in_round = {}
    /\ turn_queue = <<>>
    /\ community_cards = <<>>
    /\ hole_cards = [p \in PlayerIds |-> <<>>]
    /\ curr_bet = big_blind
    /\ last_player_to_raise = 0
    /\ bet_this_round = {}
    /\ has_raised = FALSE
    /\ bets = EmptyMap
    /\ pots = EmptyMap
    /\ dealer_location = 0
    /\ round = 1
    /\ prev_contributions = EmptyMap
    /\ prev_player = NoPlayer
    /\ count = 0
    /\ has_winner = TRUE
    /\ pc = "evaluator"
    /\ removed = {}
    /\ start_money = NoMoney
    /\ folded = {}
    /\ asked = 0
    /\ acted = {}
    /\ all_checked = TRUE
    /\ paid = NoMoney
    /\ evaluated = FALSE
    /\ hands \in inputs
    /\ scores = <<>>
    /\ ServerStarted

\* Hand::new on each of the two card sets (5 cards each), then check_hand.
CheckHand ==
    /\ pc = "evaluator"
    /\ Len(hands) = 2
    /\ scores = <<>>
    /\ \E first \in check_hand(hands[1]), second \in check_hand(hands[2]) :
        scores' = <<first, second>>
    /\ UNCHANGED <<gameVars, localVars, historyVars, hands, serverVars>>

\* OnePlayerAllPossibleCards::new on 7 distinct cards, then
\* get_highest_hand_score.
GetHighestHandScore ==
    /\ pc = "evaluator"
    /\ Len(hands) = 1
    /\ Cardinality(hands[1]) = 7
    /\ scores = <<>>
    /\ \E highest \in get_highest_hand_score(hands[1]) :
        scores' = <<highest>>
    /\ UNCHANGED <<gameVars, localVars, historyVars, hands, serverVars>>

\* The cards of one suit with the given values.
OfSuit(suit, values) == {Card(suit, value) : value \in values}

\* Two hands of 5 cards out of a set of cards.
TwoHandsOf(cards) == [1 .. 2 -> Combinations(cards, 5)]


\* Two hands compared by the evaluator, out of each of these sets of cards.
NextHands == CheckHand

\* Straights, the wheel among them, with and without a flush.
DeckStraights ==
    OfSuit("Hearts", {2, 3, 4, 5, 6, 14}) \cup OfSuit("Diamonds", {6, 7, 14})

SpecStraights == InitEvaluator(TwoHandsOf(DeckStraights)) /\ [][NextHands]_vars

\* Hands without a pair or a straight, of one suit and of two.
DeckHighCards ==
    OfSuit("Hearts", {2, 3, 4, 6, 7, 8, 9}) \cup OfSuit("Diamonds", {4, 6})

SpecHighCards == InitEvaluator(TwoHandsOf(DeckHighCards)) /\ [][NextHands]_vars

\* Pairs and two pairs of four ranks, with kickers.
DeckPairs ==
    OfSuit("Hearts", {2, 3, 12, 13, 14}) \cup OfSuit("Diamonds", {2, 3, 13, 14})

SpecPairs == InitEvaluator(TwoHandsOf(DeckPairs)) /\ [][NextHands]_vars

\* Pairs, three and four of a kind of two adjacent ranks, with kickers.
DeckGroups ==
    {Card(Suits[i], value) : i \in 1 .. Len(Suits), value \in {2, 3}}
        \cup OfSuit("Hearts", {13, 14})

SpecGroups == InitEvaluator(TwoHandsOf(DeckGroups)) /\ [][NextHands]_vars

\* Cards that make a hand of every category.
DeckCategories ==
    OfSuit("Hearts", 9 .. 14)
        \cup {Card("Diamonds", 14), Card("Clubs", 14), Card("Spades", 14),
              Card("Diamonds", 13)}

SpecCategories == InitEvaluator(TwoHandsOf(DeckCategories)) /\ [][NextHands]_vars

\* The cards of one player at the showdown: 7 cards out of a set of cards.
SevenCardsOf(cards) == {<<all_cards>> : all_cards \in Combinations(cards, 7)}

NextSeven == GetHighestHandScore

SpecSeven ==
    /\ InitEvaluator(SevenCardsOf(DeckCategories) \cup SevenCardsOf(DeckGroups)
                        \cup SevenCardsOf(DeckStraights)
                        \cup SevenCardsOf(DeckHighCards)
                        \cup SevenCardsOf(DeckPairs))
    /\ [][NextSeven]_vars

\* ------------------------------------------------------------ the server
\* No game is played; the accept loop has spawned a task per connection.
InitServer ==
    /\ players = <<>>
    /\ money = NoMoney
    /\ players_in_round = {}
    /\ turn_queue = <<>>
    /\ community_cards = <<>>
    /\ hole_cards = [p \in PlayerIds |-> <<>>]
    /\ curr_bet = big_blind
    /\ last_player_to_raise = 0
    /\ bet_this_round = {}
    /\ has_raised = FALSE
    /\ bets = EmptyMap
    /\ pots = EmptyMap
    /\ dealer_location = 0
    /\ round = 1
    /\ prev_contributions = EmptyMap
    /\ prev_player = NoPlayer
    /\ count = 0
    /\ has_winner = TRUE
    /\ pc = "server"
    /\ removed = {}
    /\ start_money = NoMoney
    /\ folded = {}
    /\ asked = 0
    /\ acted = {}
    /\ all_checked = TRUE
    /\ paid = NoMoney
    /\ evaluated = FALSE
    /\ hands = <<>>
    /\ scores = <<>>
    /\ ServerStarted

\* The task of connection c moves on.
Moved(c, at, random_value, client_id, game_id) ==
    connections' = [connections EXCEPT ![c] =
                        [at |-> at, random_value |-> random_value,
                         client_id |-> client_id, game_id |-> game_id]]

NotServed == <<gameVars, localVars, historyVars, evalVars>>

\* client_handshake read a Handshake message and calls get_unique_client_id.
ClientHandshake(c) ==
    /\ pc = "server"
    /\ connections[c].at = "handshake"
    /\ Moved(c, "client_id_lock_rng", NoId, NoId, NoId)
    /\ UNCHANGED <<NotServed, rng, client_ids, game_ids>>

\* The handshake or the StartNewTable message is missing or cannot be
\* deserialized: the task ends (with an error or a panic) holding no mutex.
ConnectionEnds(c) ==
    /\ pc = "server"
    /\ connections[c].at \in {"handshake", "start_or_join_table"}
    /\ Moved(c, "ended", NoId, connections[c].client_id, NoId)
    /\ UNCHANGED <<NotServed, rng, client_ids, game_ids>>

\* get_unique_client_id: rng.lock() blocks until the mutex is free.
ClientIdLockRng(c) ==
    /\ pc = "server"
    /\ connections[c].at = "client_id_lock_rng"
    /\ rng = Nobody
    /\ rng' = c
    /\ Moved(c, "client_id_lock_ids", NoId, NoId, NoId)
    /\ UNCHANGED <<NotServed, client_ids, game_ids>>

\* get_unique_client_id: ids.lock()
ClientIdLockIds(c) ==
    /\ pc = "server"
    /\ connections[c].at = "client_id_lock_ids"
    /\ client_ids.guard = Nobody
    /\ client_ids' = [client_ids EXCEPT !.guard = c]
    /\ Moved(c, "client_id_loop", NoId, NoId, NoId)
    /\ UNCHANGED <<NotServed, rng, game_ids>>

\* One turn of the loop of get_unique_client_id that checks the value and
\* then lets go of both mutexes before the insertion: a variant the
\* property of C28 excludes.
ClientIdLoop_unlocks(c, value) ==
    /\ pc = "server"
    /\ connections[c].at = "client_id_loop"
    /\ IF value \notin client_ids.set
       THEN /\ Moved(c, "client_id_insert", value, NoId, NoId)
            /\ rng' = Nobody
            /\ client_ids' = [client_ids EXCEPT !.guard = Nobody]
       ELSE /\ Moved(c, "client_id_loop", value, NoId, NoId)
            /\ UNCHANGED <<rng, client_ids>>
    /\ UNCHANGED <<NotServed, game_ids>>

\* One turn of the loop of get_unique_client_id: a random value is drawn and
\* the loop ends when the set does not contain it.
ClientIdLoop(c, value) ==
    /\ pc = "server"
    /\ connections[c].at = "client_id_loop"
    /\ Moved(c, IF value \notin client_ids.set THEN "client_id_insert"
                ELSE "client_id_loop",
             value, NoId, NoId)
    /\ UNCHANGED <<NotServed, rng, client_ids, game_ids>>

\* A return of get_unique_client_id that drops the guard of the id set and
\* keeps the guard of the RNG: a variant the property of C39 excludes.
ClientIdInsert_keeps_rng(c) ==
    /\ pc = "server"
    /\ connections[c].at = "client_id_insert"
    /\ client_ids' = [guard |-> Nobody,
                      set |-> client_ids.set
                                \cup {connections[c].random_value}]
    /\ Moved(c, "start_or_join_table", NoId, connections[c].random_value,
             NoId)
    /\ UNCHANGED <<NotServed, rng, game_ids>>

\* get_unique_client_id: set.insert, the return of the value and the drop
\* of both guards; client_handshake answers and start_or_join_table waits
\* for the next message.
ClientIdInsert(c) ==
    /\ pc = "server"
    /\ connections[c].at = "client_id_insert"
    /\ client_ids' = [guard |-> IF client_ids.guard = c THEN Nobody
                                ELSE client_ids.guard,
                      set |-> client_ids.set
                                \cup {connections[c].random_value}]
    /\ rng' = IF rng = c THEN Nobody ELSE rng
    /\ Moved(c, "start_or_join_table", NoId, connections[c].random_value,
             NoId)
    /\ UNCHANGED <<NotServed, game_ids>>

\* start_or_join_table read a StartNewTable message and calls
\* get_unique_game_id.
StartNewTable(c) ==
    /\ pc = "server"
    /\ connections[c].at = "start_or_join_table"
    /\ Moved(c, "game_id_lock_rng", NoId, connections[c].client_id, NoId)
    /\ UNCHANGED <<NotServed, rng, client_ids, game_ids>>

\* get_unique_game_id: rng.lock()
GameIdLockRng(c) ==
    /\ pc = "server"
    /\ connections[c].at = "game_id_lock_rng"
    /\ rng = Nobody
    /\ rng' = c
    /\ Moved(c, "game_id_lock_map", NoId, connections[c].client_id, NoId)
    /\ UNCHANGED <<NotServed, client_ids, game_ids>>

\* get_unique_game_id: game_ids.lock()
GameIdLockMap(c) ==
    /\ pc = "server"
    /\ connections[c].at = "game_id_lock_map"
    /\ game_ids.guard = Nobody
    /\ game_ids' = [game_ids EXCEPT !.guard = c]
    /\ Moved(c, "game_id_loop", NoId, connections[c].client_id, NoId)
    /\ UNCHANGED <<NotServed, rng, client_ids>>

\* One turn of the loop of get_unique_game_id.
GameIdLoop(c, value) ==
    /\ pc = "server"
    /\ connections[c].at = "game_id_loop"
    /\ Moved(c, IF value \notin game_ids.map THEN "game_id_insert"
                ELSE "game_id_loop",
             value, connections[c].client_id, NoId)
    /\ UNCHANGED <<NotServed, rng, client_ids, game_ids>>

\* get_unique_game_id: Game::new, map.insert, the return of the value and
\* the drop of both guards; start_or_join_table answers and returns.
GameIdInsert(c) ==
    /\ pc = "server"
    /\ connections[c].at = "game_id_insert"
    /\ game_ids' = [guard |-> IF game_ids.guard = c THEN Nobody
                              ELSE game_ids.guard,
                    map |-> game_ids.map \cup {connections[c].random_value}]
    /\ rng' = IF rng = c THEN Nobody ELSE rng
    /\ Moved(c, "ended", NoId, connections[c].client_id,
             connections[c].random_value)
    /\ UNCHANGED <<NotServed, client_ids>>

\* The tasks of the connections run on the threads of the runtime, one step
\* of one task at a time.
NextServer ==
    \E c \in Connections :
        \/ ClientHandshake(c)
        \/ ConnectionEnds(c)
        \/ ClientIdLockRng(c)
        \/ ClientIdLockIds(c)
        \/ \E value \in Ids : ClientIdLoop(c, value)
        \/ ClientIdInsert(c)
        \/ StartNewTable(c)
        \/ GameIdLockRng(c)
        \/ GameIdLockMap(c)
        \/ \E value \in Ids : GameIdLoop(c, value)
        \/ GameIdInsert(c)

SpecServer == InitServer /\ [][NextServer]_vars

\* A step of connection c inside get_unique_client_id or get_unique_game_id.
AllocatorStep(c) ==
    \/ ClientIdLockRng(c)
    \/ ClientIdLockIds(c)
    \/ \E value \in Ids : ClientIdLoop(c, value)
    \/ ClientIdInsert(c)
    \/ GameIdLockRng(c)
    \/ GameIdLockMap(c)
    \/ \E value \in Ids : GameIdLoop(c, value)
    \/ GameIdInsert(c)

\* A step of the allocator that takes connection c to its next statement:
\* a lock taken, a value drawn that the registry does not contain, the
\* insertion and return.
AllocatorAdvances(c) ==
    AllocatorStep(c) /\ connections'[c].at # connections[c].at

\* The server with its scheduling: the runtime keeps running every task
\* that can run, a thread waiting for a mutex gets it once it stays free,
\* and the RNG does not draw registered values for ever.  No message of a
\* client is assumed to arrive.
SpecServerFair ==
    /\ SpecServer
    /\ \A c \in Connections : WF_vars(AllocatorAdvances(c))

\* One hand from full stacks in which every player folds or goes all in,
\* every draw followed for DrawChoices cards.
InitDeal ==
    /\ Init
    /\ money = [p \in PlayerIds |-> MaxStack]

NextDeal ==
    \/ StartHand(MaxHands, DrawChoices)
    \/ Fold(MaxAsked)
    \/ AllIn(MaxAsked)
    \/ OnePlayerLeft
    \/ DealFlop(DrawChoices)
    \/ DealSingleCard(DrawChoices)
    \/ DetermineWinner
    \/ ClearRoundData

SpecDeal == InitDeal /\ [][NextDeal]_vars

TypeOK ==
    /\ money \in [PlayerIds -> Int]
    /\ players_in_round \subseteq PlayerIds
    /\ SeqToSet(turn_queue) \subseteq PlayerIds
    /\ SeqToSet(community_cards) \subseteq new_full_deck
    /\ \A p \in PlayerIds : SeqToSet(hole_cards[p]) \subseteq new_full_deck
    /\ removed \subseteq new_full_deck
    /\ curr_bet \in Int
    /\ count \in 0 .. count_cap
    /\ DOMAIN bets \subseteq PlayerIds
    /\ \A pot \in DOMAIN pots : pots[pot] \subseteq PlayerIds

\* ============================================================ properties
\* The hand is between the posting of the blinds and the payout.
InHand == pc \in Streets \cup StreetEnds

TotalMoney == SumOver(money, PlayerIds)
TotalStartMoney == SumOver(start_money, PlayerIds)

\* The chips a player has put in since the hand started, before any payout.
PutIn(p) == start_money[p] - (money[p] - paid[p])

\* p has matched the bet of the street.
Matched(p) == Get(prev_contributions, p) = curr_bet

\* -------------------------------------------------------------------- C1
\* C1: chip conservation during a hand.  In every state between the
\* posting of the blinds and the payout, the sum of the stacks plus the sum
\* of the recorded contributions (bets) equals the sum of the stacks at the
\* start of the hand.
C1_ChipConservation ==
    InHand => TotalMoney + SumValues(bets) = TotalStartMoney

\* -------------------------------------------------------------------- C2
\* C2: payout equals pot.  When a hand is settled, the total paid by
\* determine_winner equals the chips the players put in during the hand:
\* the sum of the stacks after the hand equals the sum before it.
C2_PayoutEqualsPot ==
    pc = "settled" =>
        /\ SumOver(paid, PlayerIds) =
              SumOver([p \in PlayerIds |-> PutIn(p)], PlayerIds)
        /\ TotalMoney = TotalStartMoney

\* -------------------------------------------------------------------- C3
\* C3: no stack is ever negative: a blind, call, raise or all-in deducts at
\* most the stack of the player.
C3_StackNeverNegative == \A p \in PlayerIds : money[p] >= 0

\* -------------------------------------------------------------------- C4
\* A betting round has closed (circle_players returned) with at least two
\* players in players_in_round.
ClosedWithContenders ==
    /\ pc \in StreetEnds
    /\ Cardinality(players_in_round) >= 2

\* A player of turn_queue who has chips and has not matched curr_bet, or
\* has not decided since the last raise of the street.
Unsettled(p) ==
    /\ p \in SeqToSet(turn_queue)
    /\ money[p] > 0
    /\ ~Matched(p) \/ p \notin acted

\* C4: no early close.  A betting round with at least two players in
\* players_in_round never closes while a player of turn_queue who has chips
\* is below curr_bet or has not acted since the last raise (or since the
\* start of the street).
C4_NoEarlyClose ==
    ClosedWithContenders => \A p \in PlayerIds : ~Unsettled(p)

\* The part of C4 the break conditions of circle_players keep: a round that
\* closes before the iteration cap leaves no such player.
NoEarlyCloseBeforeCap ==
    (ClosedWithContenders /\ count # count_cap) =>
        \A p \in PlayerIds : ~Unsettled(p)

\* -------------------------------------------------------------------- C5
\* C5: exact close.  On any street, as soon as every player of turn_queue
\* has decided since the last raise (or since the street began) and has a
\* street contribution equal to curr_bet, the round closes: no player is
\* prompted while that holds.
C5_ExactClose ==
    (AtLoopHead /\ money[Head(turn_queue)] # 0) =>
        ~(\A p \in SeqToSet(turn_queue) : p \in acted /\ Matched(p))

\* -------------------------------------------------------------------- C6
\* Every decision of the street so far was a check by a player of
\* turn_queue, and every player of turn_queue can be prompted.
CheckedAround ==
    /\ all_checked
    /\ \A p \in SeqToSet(turn_queue) : money[p] # 0

\* C6: check-around.  On a post-flop street where every player of
\* turn_queue checks and nobody raises, every player of turn_queue is
\* prompted exactly once: the round is open only while fewer decisions
\* than players of turn_queue were read, and it closes with as many.
C6_CheckAroundOnePass ==
    /\ (pc \in PostFlop /\ AtLoopHead /\ CheckedAround) =>
            asked < Len(turn_queue)
    /\ (pc \in {EndOf(st) : st \in PostFlop} /\ has_winner
            /\ count # count_cap /\ CheckedAround) =>
            asked = Len(turn_queue)

\* -------------------------------------------------------------------- C7
\* Folds have left exactly one player in players_in_round.
FoldedToOne == folded # {} /\ Cardinality(players_in_round) = 1

\* C7: fold-to-one.  Once folds leave one player in players_in_round no
\* decision is read from any player on any street (the count of decisions
\* of a street does not grow), the hand is settled without a hand
\* evaluation, and the stack of the remaining player grows by the sum of
\* the contributions made in the hand.
C7_FoldToOne ==
    /\ [](FoldedToOne =>
            /\ ~evaluated
            /\ pc = "settled" =>
                \A w \in players_in_round :
                    paid[w] = SumOver([p \in PlayerIds |-> PutIn(p)],
                                      PlayerIds))
    /\ [][FoldedToOne => asked' \in {asked, 0}]_vars

\* The parts of C7 that do not depend on the amounts recorded in bets: no
\* decision is read and no hand is evaluated after folds left one player.
FoldToOneEndsTheHand ==
    /\ [](FoldedToOne => ~evaluated)
    /\ [][FoldedToOne => asked' \in {asked, 0}]_vars

\* -------------------------------------------------------------------- C8
\* C8: a folded player forfeits the pot.  After a fold the player is in
\* neither players_in_round nor turn_queue for the rest of the hand, is
\* never the player prompted, and is paid nothing when the hand is settled,
\* even if a tier of pots lists the player.
C8_FoldedForfeits ==
    \A p \in folded :
        /\ p \notin players_in_round
        /\ p \notin SeqToSet(turn_queue)
        /\ paid[p] = 0

\* A showdown was settled, and a player who folded is listed in a tier.
C8_Witness ==
    /\ pc = "settled"
    /\ evaluated
    /\ \E p \in folded : \E pot \in DOMAIN pots : p \in pots[pot]

\* -------------------------------------------------------------------- C9
\* C9: every player id of turn_queue is a member of players_in_round.
C9_QueueWithinRound == SeqToSet(turn_queue) \subseteq players_in_round

\* A betting round after a fold and an all-in: turn_queue is not empty and
\* players_in_round has a member that is not in turn_queue.
C9_Witness ==
    /\ pc \in Streets
    /\ folded # {}
    /\ turn_queue # <<>>
    /\ players_in_round \ SeqToSet(turn_queue) # {}

\* ------------------------------------------------------------------- C10
\* C10: within a street curr_bet never decreases: no step of a betting
\* round in progress (fold, check/call, raise, all-in, skip, or the step
\* that closes the round) lowers curr_bet.
C10_CurrBetMonotone ==
    [][(pc \in Streets) => (curr_bet' >= curr_bet)]_vars

\* A betting round in progress after an all-in for less than curr_bet, with
\* no raise since: the player left turn_queue with a total below curr_bet.
C10_Witness ==
    /\ pc \in Streets
    /\ \E p \in (players_in_round \ SeqToSet(turn_queue)) \cap acted :
        Get(bets, p) < curr_bet

\* ------------------------------------------------------------------- C11
\* deal_hole_cards has posted the blinds and no decision was read yet.
BlindsPosted == pc = "preflop" /\ count = 0

\* The players deal_hole_cards dealt in at the start of the hand.
DealtThisHand == dealt_in(players, start_money)

\* The poster of the small blind: the first player dealt in.
SmallBlindPoster == Head(DealtThisHand)

\* The poster of the big blind: the next player in turn order.
BigBlindPoster ==
    IF Len(DealtThisHand) >= 2 THEN DealtThisHand[2] ELSE DealtThisHand[1]

\* C11: after the blinds of any hand (the first or a later one) curr_bet is
\* big_blind, last_player_to_raise is the poster of the big blind, and the
\* street contributions of the two posters are big_blind / 2 and big_blind.
C11_BlindsEstablished ==
    BlindsPosted =>
        /\ curr_bet = big_blind
        /\ last_player_to_raise = BigBlindPoster
        /\ Get(prev_contributions, SmallBlindPoster) = big_blind \div 2
        /\ Get(prev_contributions, BigBlindPoster) = big_blind

\* C11 for the hands in which deal_hole_cards deals at least two players in.
BlindsEstablishedWithTwoDealt ==
    (BlindsPosted /\ Len(DealtThisHand) >= 2) =>
        /\ curr_bet = big_blind
        /\ last_player_to_raise = BigBlindPoster
        /\ Get(prev_contributions, SmallBlindPoster) = big_blind \div 2
        /\ Get(prev_contributions, BigBlindPoster) = big_blind

\* ------------------------------------------------------------------- C12
\* play_one_round is about to call determine_winner with several contenders
\* and the five community cards: a showdown.
ShowdownDue ==
    /\ pc \in StreetEnds
    /\ ~has_winner \/ pc = "end_river"
    /\ Cardinality(players_in_round) >= 2
    /\ Len(community_cards) = 5

\* w holds the best hand among all contenders.
BestHand(w, strength) ==
    /\ w \in players_in_round
    /\ \A q \in players_in_round : strength[q] <= strength[w]

\* w is all-in, and nobody put a smaller positive amount in the hand.
ShortStackAllIn(w) ==
    /\ w \in players_in_round
    /\ money[w] = 0
    /\ PutIn(w) > 0
    /\ \A q \in PlayerIds : PutIn(q) > 0 => PutIn(q) >= PutIn(w)

\* The players whose total contribution is at least c.
ContributedAtLeast(c) == {q \in PlayerIds : PutIn(q) >= c}

\* C12: short-stack payout.  At a showdown an all-in player with total
\* contribution c and the best hand is paid c times the number of players
\* whose total contribution is at least c; what is left of the chips put in
\* goes to the other players.
C12_ShortStackPayout ==
    ShowdownDue =>
        \A strength \in Rankings : \A w \in PlayerIds :
            (BestHand(w, strength) /\ ShortStackAllIn(w)) =>
                LET earned == money_earned(strength)
                    c == PutIn(w)
                    main_pot == c * Cardinality(ContributedAtLeast(c))
                    put_in == SumOver([q \in PlayerIds |-> PutIn(q)],
                                      PlayerIds)
                IN  /\ earned[w] = main_pot
                    /\ SumOver(earned, PlayerIds \ {w}) = put_in - main_pot

\* ------------------------------------------------------------------- C13
\* C13: side-pot tier invariant.  In every state of a hand the keys of pots
\* are distinct positive thresholds, and a player is in the set of tier T
\* exactly when the player's total contribution for the hand (bets) is at
\* least T.
C13_TierInvariant ==
    (InHand \/ pc = "settled") =>
        \A T \in DOMAIN pots :
            /\ T > 0
            /\ \A p \in PlayerIds : p \in pots[T] <=> Get(bets, p) >= T

\* C13 read with the chips a player has put in instead of the amount
\* recorded in bets.
TierInvariantOnChipsPutIn ==
    InHand =>
        \A T \in DOMAIN pots :
            \A p \in PlayerIds : p \in pots[T] <=> PutIn(p) >= T

\* ------------------------------------------------------------------- C14
\* C14: an invalid raise is recoverable.  A step that reads a raise to an
\* amount below curr_bet does not end the round and leaves the stacks, the
\* contributions, curr_bet, last_player_to_raise, turn_queue,
\* players_in_round and the tiers unchanged, so the same player is the next
\* to be prompted.
C14_InvalidRaiseRecoverable ==
    [][RejectedRaise(count_cap) =>
          /\ pc' = pc
          /\ UNCHANGED <<money, bets, prev_contributions, curr_bet,
                         last_player_to_raise, turn_queue, players_in_round,
                         pots>>]_vars

\* The keys of pots are positive amounts.
TierKeysPositive == \A T \in DOMAIN pots : T > 0

\* ------------------------------------------------------------------- C15
\* The effects C15 names of a raise to X by the player at the front of
\* turn_queue.
RaiseTakesEffect(X) ==
    LET p == Head(turn_queue) IN
    /\ curr_bet' = X
    /\ last_player_to_raise' = p
    /\ Get(prev_contributions', p) = X
    /\ turn_queue' = Append(Tail(turn_queue), p)

\* C15: accepted raise.  After a player raises to an amount X >= curr_bet,
\* curr_bet is X, last_player_to_raise is that player, the player's street
\* contribution is X and the player is at the back of turn_queue.
C15_AcceptedRaise ==
    [][\A X \in 0 .. MaxRaise :
          (X >= curr_bet /\ Prompted(count_cap) /\ Decide("raise", X)) =>
              RaiseTakesEffect(X)]_vars

\* C15 for the raises above curr_bet.
AcceptedRaiseAboveCurrBet ==
    [][\A X \in 0 .. MaxRaise :
          (X > curr_bet /\ Prompted(count_cap) /\ Decide("raise", X)) =>
              RaiseTakesEffect(X)]_vars

\* ------------------------------------------------------------------- C16
\* The player at the front of turn_queue goes all in and handle_all_in
\* returns.
GoesAllIn ==
    /\ Prompted(count_cap)
    /\ Decide("all in", 0)
    /\ pc' # "panicked"

\* C16: an all-in pushes exactly the remaining stack.  After a player goes
\* all in, on any street, the stack of the player is 0 and the total
\* contribution of the player for the hand (bets) has grown by the stack
\* held just before.
C16_AllInPushesStack ==
    [][GoesAllIn =>
          LET p == Head(turn_queue) IN
          /\ money'[p] = 0
          /\ Get(bets', p) - Get(bets, p) = money[p]]_vars

\* The stack part of C16 alone.
AllInEmptiesStack ==
    [][GoesAllIn => money'[Head(turn_queue)] = 0]_vars

\* ------------------------------------------------------------------- C17
\* p was dealt in this hand and the stack of p has reached zero.
StackReachedZero(p) ==
    /\ InHand
    /\ start_money[p] # 0
    /\ money[p] = 0

\* C17: a player whose stack has reached zero is not in turn_queue for
\* further action, is not the player asked for a decision, and stays in
\* players_in_round until the hand is settled.
C17_ZeroStackLeavesQueue ==
    \A p \in PlayerIds :
        StackReachedZero(p) =>
            /\ p \notin SeqToSet(turn_queue)
            /\ p \in players_in_round

\* The parts of C17 that do not depend on turn_queue: such a player stays
\* in players_in_round, and no decision is read from a player without
\* chips (the count of decisions of the street does not grow).
ZeroStackStaysInRound ==
    /\ [](\A p \in PlayerIds : StackReachedZero(p) => p \in players_in_round)
    /\ [][(pc \in Streets /\ turn_queue # <<>>
             /\ money[Head(turn_queue)] = 0) => asked' \in {asked, 0}]_vars

\* ------------------------------------------------------------------- C18
\* The player at the front of turn_queue checks or calls.
ChecksOrCalls ==
    /\ Prompted(count_cap)
    /\ Decide("check", 0)

\* The call amount of the player about to act: curr_bet minus the street
\* contribution of the player so far.
CallAmount == curr_bet - Get(prev_contributions, Head(turn_queue))

\* C18: a check/call moves exactly the call amount.  The street
\* contribution of the player becomes curr_bet, the stack decreases by
\* the call amount and the total contribution for the hand (bets) grows by
\* the same amount; a check (call amount 0) changes neither.
C18_CheckCallMovesCallAmount ==
    [][ChecksOrCalls =>
          LET p == Head(turn_queue) IN
          /\ Get(prev_contributions', p) = curr_bet
          /\ money'[p] = money[p] - CallAmount
          /\ Get(bets', p) = Get(bets, p) + CallAmount]_vars

\* The parts of C18 about the street contribution and the stack.
CheckCallStackAndStreet ==
    [][ChecksOrCalls =>
          LET p == Head(turn_queue) IN
          /\ Get(prev_contributions', p) = curr_bet
          /\ money'[p] = money[p] - CallAmount]_vars

\* The part of C18 about a check: the total contribution is unchanged.
CheckLeavesTotalUnchanged ==
    [][(ChecksOrCalls /\ CallAmount = 0) =>
          Get(bets', Head(turn_queue)) = Get(bets, Head(turn_queue))]_vars

\* ------------------------------------------------------------------- C19
\* A tier exists at the total contribution of p after the step, and every
\* player whose total contribution is at least that key is in it.
TierAtNewTotal(p) ==
    LET key == Get(bets', p) IN
    /\ key \in DOMAIN pots'
    /\ \A q \in PlayerIds : Get(bets', q) >= key => q \in pots'[key]

\* C19: tier creation on contribution.  Whenever a contribution is
\* recorded for a player (a blind, a call, a raise or an all-in makes bets
\* of the player grow), a side-pot tier exists whose key is the new total
\* contribution of the player for the hand, and every player whose total
\* contribution is at least that key is registered in that tier.
C19_TierOnContribution ==
    [][\A p \in PlayerIds :
          Get(bets', p) > Get(bets, p) => TierAtNewTotal(p)]_vars

\* C19 for an all-in alone.
TierOnAllIn ==
    [][GoesAllIn => TierAtNewTotal(Head(turn_queue))]_vars

\* C19 for the first contribution of a player in the hand, where the
\* amount of the bet is the total contribution: the tier exists and the
\* player is in it.
TierOnFirstContribution ==
    [][\A p \in PlayerIds :
          (Get(bets, p) = 0 /\ Get(bets', p) > 0 /\ ~GoesAllIn) =>
              /\ Get(bets', p) \in DOMAIN pots'
              /\ p \in pots'[Get(bets', p)]]_vars

\* ------------------------------------------------------------------- C20
\* A hand has ended and the next one has not started.
BetweenHands == pc = "idle" /\ round > 1

\* C20: when a hand has ended, by fold-to-one or by showdown, the per-hand
\* state is cleared before the next hand starts: players_in_round,
\* turn_queue, community_cards, the contributions (bets) and the side-pot
\* tiers (pots) are empty and curr_bet is 0.
C20_HandStateCleared ==
    BetweenHands =>
        /\ players_in_round = {}
        /\ turn_queue = <<>>
        /\ community_cards = <<>>
        /\ DOMAIN bets = {}
        /\ DOMAIN pots = {}
        /\ curr_bet = 0

\* A hand that went to a showdown and paid chips out has ended.
C20_Witness ==
    /\ BetweenHands
    /\ evaluated
    /\ \E p \in PlayerIds : paid[p] > 0

\* A hand that every player but one folded has ended.
ClearedAfterFoldToOne ==
    /\ BetweenHands
    /\ ~evaluated
    /\ Cardinality(folded) = NumPlayers - 1

\* ------------------------------------------------------------------- C27
\* The cards dealt in this hand, in the order hole cards (by seating) then
\* community cards.
RECURSIVE HoleCardsOf(_)
HoleCardsOf(dealt) ==
    IF Len(dealt) = 0 THEN <<>>
    ELSE hole_cards[Head(dealt)] \o HoleCardsOf(Tail(dealt))

DealtCards == HoleCardsOf(DealtThisHand) \o community_cards

\* C27: no card is dealt twice in a hand.  From the deal to the payout the
\* hole cards of the dealt-in players and the community cards are pairwise
\* distinct, and the cards that have left the deck are exactly the cards
\* dealt so far: every card drawn left the deck in the step that drew it.
C27_NoCardDealtTwice ==
    (InHand \/ pc = "settled") =>
        LET dealt == DealtCards IN
        /\ Cardinality(SeqToSet(dealt)) = Len(dealt)
        /\ removed = SeqToSet(dealt)

\* A hand with three players dealt in has reached the end of the river:
\* 6 hole cards and 5 community cards have left the deck, the first of
\* them not the first card of the deck.
C27_Witness ==
    /\ pc = "end_river"
    /\ Len(DealtCards) = 2 * NumPlayers + 5
    /\ Cardinality(removed) = 2 * NumPlayers + 5
    /\ DealtCards[1] # cards_in_order[1]

\* ------------------------------------------------------------------- C30
\* play_one_round is about to call determine_winner with two or more
\* players left in players_in_round: hands will be compared.
HandsCompared ==
    /\ pc \in StreetEnds
    /\ ~has_winner \/ pc = "end_river"
    /\ Cardinality(players_in_round) >= 2

\* C30: whenever determine_winner compares hands, exactly 5 community
\* cards are on the board and every contender holds exactly 2 hole cards,
\* so every contender is evaluated on exactly 7 distinct cards; and in
\* every state the number of community cards is 0, 3, 4 or 5.
C30_ShowdownOnSevenCards ==
    /\ Len(community_cards) \in {0, 3, 4, 5}
    /\ HandsCompared =>
          /\ Len(community_cards) = 5
          /\ \A p \in players_in_round :
                /\ Len(hole_cards[p]) = 2
                /\ Cardinality(SeqToSet(seven_cards_vec(p))) = 7

\* Hands are about to be compared between two or more players who put
\* chips in.
C30_Witness ==
    /\ HandsCompared
    /\ DOMAIN pots # {}
    /\ \E p \in players_in_round : Get(bets, p) > 0

\* determine_winner never panics on the number of cards of a contender.
ShowdownNeverShortOfCards ==
    (pc \in StreetEnds /\ (~has_winner \/ pc = "end_river")) =>
        \A pot \in DOMAIN pots :
            \A p \in pots[pot] \cap players_in_round :
                Cardinality(players_in_round) = 1
                \/ Cardinality(SeqToSet(seven_cards_vec(p))) = 7

\* ------------------------------------------------------------------- C29
\* The step that deals the flop, the turn or the river and enters the
\* betting round of that street.
StreetStarts ==
    /\ pc \in {"end_preflop", "end_flop", "end_turn"}
    /\ has_winner
    /\ community_cards' # community_cards

\* C29: at the start of the flop, turn and river betting rounds curr_bet
\* is 0 and the contribution of every player for the new street is 0,
\* while the total contribution of every player for the hand (bets) is the
\* one the earlier streets left.
C29_StreetStartsAtZero ==
    [][StreetStarts =>
          /\ curr_bet' = 0
          /\ \A p \in PlayerIds : Get(prev_contributions', p) = 0
          /\ \A p \in PlayerIds : Get(bets', p) = Get(bets, p)]_vars

\* The flop betting round starts after a first street in which chips were
\* put in and contributions for the street were recorded.
C29_Witness ==
    /\ pc = "flop"
    /\ count = 0
    /\ Len(community_cards) = 3
    /\ curr_bet = 0
    /\ prev_contributions = EmptyMap
    /\ \E p \in players_in_round : Get(bets, p) > 0 /\ money[p] > 0

\* ============================================ properties of the evaluator
\* check_hand has returned for both hands.
Scored == pc = "evaluator" /\ Len(hands) = 2 /\ scores # <<>>

\* The ranks of a hand, as a bag: how many cards of every value.
RankCounts(cards) ==
    [v \in 2 .. 14 |-> Cardinality({card \in cards : card.value = v})]

IsWheel(cards) == {card.value : card \in cards} = {2, 3, 4, 5, 14}

\* ------------------------------------------------------------------- C21
\* C21: wheel straight.  A hand with the ranks 2, 3, 4, 5, A that is not a
\* flush is classified as Straight, and its HandScore is strictly lower
\* than the HandScore of every other Straight.
C21_WheelIsLowestStraight ==
    Scored =>
        \A i, j \in 1 .. 2 :
            (IsWheel(hands[i]) /\ ~check_flush(hands[i])) =>
                /\ scores[i].hand_type = "Straight"
                /\ (scores[j].hand_type = "Straight" /\ ~IsWheel(hands[j]))
                      => cmp(scores[i], scores[j]) = "Less"

\* The classification part of C21.
WheelIsStraight ==
    Scored =>
        \A i \in 1 .. 2 :
            (IsWheel(hands[i]) /\ ~check_flush(hands[i])) =>
                scores[i].hand_type = "Straight"

\* The same order among straight flushes, where the wheel is scored by
\* calculate_score_for_straight.
WheelIsLowestStraightFlush ==
    Scored =>
        \A i, j \in 1 .. 2 :
            (IsWheel(hands[i]) /\ check_flush(hands[i])
                /\ scores[j].hand_type = "StraightFlush"
                /\ ~IsWheel(hands[j]))
              => cmp(scores[i], scores[j]) = "Less"

\* ------------------------------------------------------------------- C22
\* The ranks of a hand from the highest card downward.
RanksDescending(cards) ==
    LET values == sorted_values(cards)
    IN  [i \in 1 .. Len(values) |-> values[Len(values) + 1 - i]]

\* Standard poker order on the ranks: a is higher than b at the first
\* place, from the highest card downward, where they differ.
HigherFromTop(a, b) ==
    LET x == RanksDescending(a)
        y == RanksDescending(b)
    IN  \E k \in 1 .. Len(x) :
            /\ x[k] > y[k]
            /\ \A m \in 1 .. k - 1 : x[m] = y[m]

SameCategoryIn(types) ==
    /\ scores[1].hand_type = scores[2].hand_type
    /\ scores[1].hand_type \in types

\* C22: tie-break order for HighCard and Flush.  Of two hands of the same
\* category among HighCard and Flush, the hand whose ranks compared from
\* the highest card downward are greater has the strictly greater score,
\* and two hands with the same ranks have equal scores.
C22_HighCardFlushOrder ==
    (Scored /\ SameCategoryIn({"HighCard", "Flush"})) =>
        \A i, j \in 1 .. 2 :
            /\ HigherFromTop(hands[i], hands[j])
                  => scores[i].score > scores[j].score
            /\ RankCounts(hands[i]) = RankCounts(hands[j])
                  => scores[i].score = scores[j].score

\* The part of C22 about hands with the same ranks.
SameRanksSameScore ==
    (Scored /\ SameCategoryIn({"HighCard", "Flush"})) =>
        (RankCounts(hands[1]) = RankCounts(hands[2])
            => scores[1].score = scores[2].score)

\* C22 for two flushes only.
FlushOrder ==
    (Scored /\ SameCategoryIn({"Flush"})) =>
        \A i, j \in 1 .. 2 :
            HigherFromTop(hands[i], hands[j])
                => scores[i].score > scores[j].score

\* ------------------------------------------------------------------- C23
\* The ranks a hand holds exactly n cards of.
RanksHeld(cards, n) ==
    {v \in 2 .. 14 : Cardinality({card \in cards : card.value = v}) = n}

TopPair(cards) == MaxOf(RanksHeld(cards, 2))
SecondPair(cards) == CHOOSE v \in RanksHeld(cards, 2) : v # TopPair(cards)
Kicker(cards) == CHOOSE v \in RanksHeld(cards, 1) : TRUE

\* Standard order of two TwoPair hands: top pair, then second pair, then
\* kicker.
TwoPairHigher(a, b) ==
    \/ TopPair(a) > TopPair(b)
    \/ /\ TopPair(a) = TopPair(b)
       /\ SecondPair(a) > SecondPair(b)
    \/ /\ TopPair(a) = TopPair(b)
       /\ SecondPair(a) = SecondPair(b)
       /\ Kicker(a) > Kicker(b)

\* C23: tie-break order for TwoPair.  Of two TwoPair hands the one with
\* the higher top pair has the strictly greater HandScore; with equal top
\* pairs the higher second pair wins; with both pairs equal the higher
\* kicker wins.
C23_TwoPairOrder ==
    (Scored /\ SameCategoryIn({"TwoPair"})) =>
        \A i, j \in 1 .. 2 :
            TwoPairHigher(hands[i], hands[j])
                => cmp(scores[i], scores[j]) = "Greater"

\* The parts of C23 with equal top pairs.
TwoPairOrderBelowTopPair ==
    (Scored /\ SameCategoryIn({"TwoPair"})
        /\ TopPair(hands[1]) = TopPair(hands[2])) =>
        \A i, j \in 1 .. 2 :
            TwoPairHigher(hands[i], hands[j])
                => cmp(scores[i], scores[j]) = "Greater"

\* ------------------------------------------------------------------- C24
\* The rank of the matched group of a Pair, ThreeOfAKind or FourOfAKind
\* hand, and its kickers.
GroupRank(cards) ==
    CHOOSE v \in 2 .. 14 : Cardinality({card \in cards : card.value = v}) >= 2

Kickers(cards) == {card \in cards : card.value # GroupRank(cards)}

\* The weighted sum check_hand adds for the kickers.
KickerSum(cards) == weighted_sum(sorted_values(Kickers(cards)), 1)

\* C24: kickers cannot cross tiers.  Of two hands of the same category
\* among Pair, ThreeOfAKind and FourOfAKind, the hand whose matched group
\* has the higher rank gets the strictly higher score whatever the
\* kickers are, and the weighted kicker sum of each hand is smaller than
\* one step of the multiplier of the category (6188, 624, 10764).
C24_KickersStayBelowGroups ==
    (Scored /\ SameCategoryIn({"Pair", "ThreeOfAKind", "FourOfAKind"})) =>
        \A i, j \in 1 .. 2 :
            /\ GroupRank(hands[i]) > GroupRank(hands[j])
                  => scores[i].score > scores[j].score
            /\ KickerSum(hands[i]) < hand_type_multiples[scores[i].hand_type]

\* Two hands of the same category among the three, the one with the lower
\* group holding the higher kickers.
C24_Witness ==
    /\ Scored
    /\ SameCategoryIn({"Pair", "ThreeOfAKind", "FourOfAKind"})
    /\ GroupRank(hands[1]) > GroupRank(hands[2])
    /\ KickerSum(hands[1]) < KickerSum(hands[2])

\* ------------------------------------------------------------------- C25
\* The fixed order of the categories, lowest first.
CategoryOrder ==
    <<"HighCard", "Pair", "TwoPair", "ThreeOfAKind", "Straight", "Flush",
      "FullHouse", "FourOfAKind", "StraightFlush", "RoyalFlush">>

CategoryRank(hand_type) ==
    CHOOSE i \in 1 .. Len(CategoryOrder) : CategoryOrder[i] = hand_type

IsRoyalFlush(cards) ==
    /\ Cardinality({card.suit : card \in cards}) = 1
    /\ {card.value : card \in cards} = 10 .. 14

\* HandScores of every category with the tiebreak scores of the two hands.
ScoresAround ==
    {HandScore(CategoryOrder[i], scores[j].score) :
        i \in 1 .. Len(CategoryOrder), j \in 1 .. 2}

\* C25: category dominance.  The comparison of HandScores is a total order
\* whose primary key is the category in the order HighCard < Pair <
\* TwoPair < ThreeOfAKind < Straight < Flush < FullHouse < FourOfAKind <
\* StraightFlush < RoyalFlush and whose secondary key is the score: a hand
\* of a higher category outranks every hand of a lower category whatever
\* the scores, and a royal flush outranks every hand that is not one.
C25_CategoryDominance ==
    Scored =>
        \A i, j \in 1 .. 2 :
            LET a == scores[i]
                b == scores[j]
            IN  /\ CategoryRank(a.hand_type) > CategoryRank(b.hand_type)
                      => cmp(a, b) = "Greater"
                /\ a.hand_type = b.hand_type
                      => cmp(a, b) = compare(a.score, b.score)
                /\ cmp(a, b) = "Equal" <=> a = b
                /\ cmp(a, b) = "Greater" <=> cmp(b, a) = "Less"
                /\ \A c \in ScoresAround :
                      /\ (cmp(a, b) # "Less" /\ cmp(b, c) # "Less")
                            => cmp(a, c) # "Less"
                      /\ (cmp(a, c) # "Less" /\ cmp(c, b) # "Less")
                            => cmp(a, b) # "Less"
                /\ (IsRoyalFlush(hands[i]) /\ ~IsRoyalFlush(hands[j]))
                      => /\ a.hand_type = "RoyalFlush"
                         /\ cmp(a, b) = "Greater"

\* A hand of a higher category against one with a higher score.
C25_Witness ==
    /\ Scored
    /\ CategoryRank(scores[1].hand_type) > CategoryRank(scores[2].hand_type)
    /\ scores[1].score < scores[2].score

\* A royal flush against four of a kind.
RoyalFlushAgainstFour ==
    ~ /\ Scored
      /\ IsRoyalFlush(hands[1])
      /\ scores[2].hand_type = "FourOfAKind"

\* ------------------------------------------------------------------- C26
\* get_highest_hand_score has returned for the 7 cards of hands[1].
HighestFound == pc = "evaluator" /\ Len(hands) = 1 /\ scores # <<>>

\* C26: best of seven.  For 7 distinct cards get_highest_hand_score
\* returns the HandScore of one of the 21 five-card subsets, and that
\* score is not lower than the score check_hand gives to any of the 21
\* subsets.
C26_BestOfSeven ==
    HighestFound =>
        LET subsets == Combinations(hands[1], 5)
        IN  /\ Cardinality(subsets) = 21
            /\ \E subset \in subsets : scores[1] \in check_hand(subset)
            /\ \A subset \in subsets :
                  \A hand_score \in check_hand(subset) :
                      cmp(scores[1], hand_score) # "Less"

\* The best of seven is above HighCard and some subsets of other
\* categories score lower.
C26_Witness ==
    /\ HighestFound
    /\ scores[1].hand_type # "HighCard"
    /\ \E subset \in Combinations(hands[1], 5) :
          \E hand_score \in check_hand(subset) :
              /\ hand_score.hand_type # scores[1].hand_type
              /\ cmp(hand_score, scores[1]) = "Less"

\* ------------------------------------------------------------------- C28
\* C28: unique id allocation is atomic.  Under any interleaving of the
\* connections get_unique_client_id never returns the same id to two
\* clients and get_unique_game_id never returns the same id for two games:
\* from the collision check to the insertion the connection holds the
\* mutex of the registry, and the value it is about to insert is not in
\* the registry; every id returned is in its registry.
C28_UniqueIds ==
    pc = "server" =>
        /\ \A c, d \in Connections :
              c # d =>
                /\ connections[c].client_id # NoId
                      => connections[c].client_id # connections[d].client_id
                /\ connections[c].game_id # NoId
                      => connections[c].game_id # connections[d].game_id
        /\ \A c \in Connections :
              /\ connections[c].at \in {"client_id_loop", "client_id_insert"}
                    => client_ids.guard = c
              /\ connections[c].at = "client_id_insert"
                    => connections[c].random_value \notin client_ids.set
              /\ connections[c].at \in {"game_id_loop", "game_id_insert"}
                    => game_ids.guard = c
              /\ connections[c].at = "game_id_insert"
                    => connections[c].random_value \notin game_ids.map
              /\ connections[c].client_id # NoId
                    => connections[c].client_id \in client_ids.set
              /\ connections[c].game_id # NoId
                    => connections[c].game_id \in game_ids.map

\* A connection holding both mutexes drew the client id another connection
\* was given and draws again, while a third waits for the mutex.
C28_Witness ==
    /\ pc = "server"
    /\ \E c, d, e \in Connections :
          /\ connections[c].at = "client_id_loop"
          /\ connections[c].random_value # NoId
          /\ connections[c].random_value = connections[d].client_id
          /\ connections[e].at = "client_id_lock_rng"

\* Every connection was given a client id and a game id.
AllConnectionsServed ==
    /\ pc = "server"
    /\ \A c \in Connections :
          connections[c].client_id # NoId /\ connections[c].game_id # NoId

StagesLeft ==
    CASE pc = "idle" -> IF round = 1 THEN 10 ELSE 0
      [] pc = "preflop" -> 9
      [] pc = "end_preflop" -> 8
      [] pc = "flop" -> 7
      [] pc = "end_flop" -> 6
      [] pc = "turn" -> 5
      [] pc = "end_turn" -> 4
      [] pc = "river" -> 3
      [] pc = "end_river" -> 2
      [] pc = "settled" -> 1
      [] OTHER -> 0

StepsLeft ==
    StagesLeft * (count_cap + 1)
        + (IF pc \in Streets THEN count_cap - count ELSE 0)

\* Every step of a whole hand brings its end nearer: a hand is over after
\* at most 10 * 21 steps, 20 decisions a street at most.
EveryStepNearerTheEnd ==
    [][StepsLeft' < StepsLeft /\ StepsLeft' >= 0 /\ asked' <= count_cap]_vars

\* ------------------------------------------------------------------- C32
\* The players of players_in_round who still have chips, in seating order
\* from the seat after the dealer (the front of players, who posts the
\* small blind).
PlayersWithChipsInOrder ==
    SelectSeq2(players, {p \in players_in_round : money[p] > 0})

\* C32: per-street entry rebuilds the turn order.  At the start of the
\* flop, turn and river betting rounds turn_queue holds exactly once each
\* player of players_in_round who still has chips, in seating order
\* starting just after the dealer, whatever the order in which the betting
\* of the street before ended.
C32_TurnOrderRebuilt ==
    [][StreetStarts => turn_queue' = PlayersWithChipsInOrder]_vars

\* The same without the order: the players of turn_queue are the players
\* of players_in_round who still have chips.
TurnQueueHoldsPlayersWithChips ==
    [][StreetStarts =>
          SeqToSet(turn_queue') = {p \in players_in_round : money[p] > 0}]_vars

\* What the deals do: turn_queue is the one the street before left.
TurnQueueKeptAcrossStreets ==
    [][StreetStarts => turn_queue' = turn_queue]_vars

\* ------------------------------------------------------------------- C33
\* C33: raise tracking does not leak across streets.  At the start of the
\* flop, turn and river betting rounds the raise tracking of the street
\* before is cleared: has_raised is false and last_player_to_raise names
\* no player, so that the close of the new round depends on the actions
\* of the new street only.
C33_RaiseTrackingCleared ==
    [][StreetStarts =>
          /\ ~has_raised'
          /\ last_player_to_raise' = NoPlayer]_vars

\* The flag alone.
HasRaisedCleared ==
    [][StreetStarts => ~has_raised']_vars

\* What the deals do: both fields are the ones the street before left.
RaiseTrackingKeptAcrossStreets ==
    [][StreetStarts =>
          UNCHANGED <<has_raised, last_player_to_raise>>]_vars

\* The first street starts with has_raised false and the big blind as
\* last_player_to_raise.
RaiseTrackingSetBeforePreflop ==
    [][(pc = "idle" /\ pc' = "preflop") =>
          /\ ~has_raised'
          /\ last_player_to_raise' = turn_queue'[Len(turn_queue')]]_vars

\* ------------------------------------------------------------------- C34
\* The dealt-in player seated immediately after the poster of the big
\* blind: the poster of the small blind when two players are dealt in.
AfterBigBlind ==
    IF Len(DealtThisHand) >= 3 THEN DealtThisHand[3] ELSE DealtThisHand[1]

\* The first decision of the first betting round is read.
FirstDecision == pc = "preflop" /\ asked = 0 /\ asked' = 1

\* The first betting round returns with the players still in and nobody
\* has raised the big blind.
ClosesUnraised ==
    /\ pc = "preflop"
    /\ pc' = "end_preflop"
    /\ has_winner'
    /\ ~has_raised'
    /\ curr_bet' = big_blind

\* The step is the turn of the poster of the big blind: a decision, or the
\* skipped turn of a poster whose blind took the whole stack.
BigBlindTurn ==
    /\ turn_queue # <<>>
    /\ Head(turn_queue) = BigBlindPoster
    /\ count' = count
    /\ asked' = IF money[BigBlindPoster] # 0 THEN asked + 1 ELSE asked

\* C34: pre-flop action order.  The first player asked for a decision
\* pre-flop is the dealt-in player seated immediately after the poster of
\* the big blind (the poster of the small blind when two players are dealt
\* in), and when nobody raises the round closes on the turn of the poster
\* of the big blind, the last player to act.
C34_PreflopActionOrder ==
    [][/\ FirstDecision => Head(turn_queue) = AfterBigBlind
       /\ ClosesUnraised => BigBlindTurn]_vars

\* The first part alone.
FirstAskedAfterBigBlind ==
    [][FirstDecision => Head(turn_queue) = AfterBigBlind]_vars

\* The second part for the rounds that return before the iteration cap.
BigBlindLastBeforeCap ==
    [][(ClosesUnraised /\ count # count_cap) => BigBlindTurn]_vars

\* ------------------------------------------------------------------ C35
\* The street contribution recorded for the player at position i of
\* turn_queue.
StreetContribution(i) == Get(prev_contributions, turn_queue[i])

\* C35: in every state of a betting round every player in turn_queue has a
\* street contribution of at most curr_bet, so the call amount shown to
\* the player about to be prompted (curr_bet minus the street contribution,
\* game.rs:594-601) is never negative.
C35_CallAmountNeverNegative ==
    pc \in Streets =>
        /\ \A i \in 1..Len(turn_queue) : StreetContribution(i) <= curr_bet
        /\ turn_queue # <<>> => CallAmount >= 0

\* A betting round after the flop in which a bet was raised again: the
\* player about to be prompted has chips, has put chips in on this street
\* and owes a positive call amount, the last raiser waits in the queue
\* with a contribution equal to curr_bet.
C35_Witness ==
    /\ pc \in Streets \ {"preflop"}
    /\ has_raised
    /\ Len(turn_queue) >= 2
    /\ money[Head(turn_queue)] # 0
    /\ StreetContribution(1) > 0
    /\ CallAmount > 0
    /\ \E i \in 2..Len(turn_queue) :
            /\ turn_queue[i] = last_player_to_raise
            /\ StreetContribution(i) = curr_bet

\* No street contribution is negative: with C35 every contribution of a
\* queued player lies between 0 and curr_bet.
StreetContributionsNotNegative ==
    \A p \in PlayerIds : Get(prev_contributions, p) >= 0

\* ------------------------------------------------------------------ C36
\* determine_winner is about to run its tier loop: the hand reached its
\* end with two or more players in players_in_round.
AtShowdown ==
    /\ pc \in StreetEnds
    /\ ~has_winner \/ pc = "end_river"
    /\ Cardinality(players_in_round) >= 2

\* The players of a tier of pots who are still in players_in_round: the
\* candidates determine_winner hands to get_winner (game.rs:499-501).
TierContenders(pot) == pots[pot] \cap players_in_round

\* C36: at a showdown with two or more contenders every tier of pots has
\* at least one eligible player who is still in players_in_round, so a
\* winner can be determined for every tier.
C36_EveryTierHasContender ==
    AtShowdown => \A pot \in DOMAIN pots : TierContenders(pot) # {}

\* The part of C36 that holds: while nobody has folded every tier has a
\* contender, since every member of a tier is in players_in_round.
TiersHaveContendersWithoutFold ==
    (AtShowdown /\ folded = {}) =>
        \A pot \in DOMAIN pots : TierContenders(pot) # {}

\* A fold leaves pots as it found it (game.rs:609-624): the folded player
\* stays a member of every tier the player had entered.
FoldLeavesPots ==
    [][(pc \in Streets /\ folded' # folded) => pots' = pots]_vars

\* ------------------------------------------------------------------ C37
\* C37: in every hand start_game starts, the first or a later one, at
\* least two players are dealt in and the small blind and the big blind
\* are posted by two different players.
C37_TwoPlayersDealtIn ==
    BlindsPosted =>
        /\ Len(DealtThisHand) >= 2
        /\ Cardinality(players_in_round) >= 2
        /\ SmallBlindPoster # BigBlindPoster

\* The part of C37 that holds: in the first hand, where every seated
\* player has chips, every seated player is dealt in and two different
\* players post the blinds.
FirstHandDealsEveryone ==
    (BlindsPosted /\ round = 1) =>
        /\ DealtThisHand = players
        /\ players_in_round = PlayerIds
        /\ SmallBlindPoster # BigBlindPoster

\* start_game never removes a player from the seating: the loop condition
\* players.len() > 1 (game.rs:241) holds in every hand, whatever the
\* stacks.
SeatingNeverShrinks == Len(players) = NumPlayers

\* ------------------------------------------------------------------ C38
\* A hand is under way (or has stopped in a panic): deal_hole_cards has
\* run and clear_round_data has not.
HandUnderWay == pc # "idle"

\* The players whose stack was 0 when the hand under way started.
BrokeAtStart == {p \in PlayerIds : start_money[p] = 0}

\* The step of start_game that starts a hand.
HandStarts == pc = "idle" /\ pc' # "idle"

\* The step that reads a decision from the player at the front of
\* turn_queue.
ReadsDecision == pc \in Streets /\ asked' = asked + 1

\* C38: a player whose stack is 0 at the start of a hand is not dealt hole
\* cards, is not added to players_in_round or turn_queue, posts no blind
\* (no entry in bets, no tier of pots), is never prompted in that hand,
\* and the stack of the player is still 0 at every point of the hand, the
\* payout included.
C38_BrokePlayerSitsOut ==
    /\ [](HandUnderWay =>
            \A p \in BrokeAtStart :
                /\ p \notin players_in_round
                /\ p \notin SeqToSet(turn_queue)
                /\ p \notin DOMAIN bets
                /\ \A pot \in DOMAIN pots : p \notin pots[pot]
                /\ money[p] = 0
                /\ paid[p] = 0)
    /\ [][HandStarts =>
            \A p \in PlayerIds :
                money[p] = 0 => hole_cards'[p] = hole_cards[p]]_vars
    /\ [][ReadsDecision => Head(turn_queue) \notin BrokeAtStart]_vars
    /\ [][pc = "settled" => money' = money]_vars

\* The second hand has been paid out at a showdown between two players
\* while the third, who lost every chip in the first hand, sat out with
\* the hole cards of the first hand; a decision was read on the last
\* street.
C38_Witness ==
    /\ pc = "settled"
    /\ round = MaxHands + 1
    /\ Cardinality(BrokeAtStart) = 1
    /\ Cardinality(players_in_round) = 2
    /\ evaluated
    /\ asked > 0
    /\ \E p \in PlayerIds : paid[p] > 0
    /\ \A p \in BrokeAtStart : Len(hole_cards[p]) = 2

\* ------------------------------------------------------------------ C39
\* The statements of the two allocators at which the calling connection
\* holds the guard of the RNG, of the client id set, of the game map.
HoldsRngAt ==
    {"client_id_lock_ids", "client_id_loop", "client_id_insert",
     "game_id_lock_map", "game_id_loop", "game_id_insert"}

HoldsIdsAt == {"client_id_loop", "client_id_insert"}

HoldsMapAt == {"game_id_loop", "game_id_insert"}

\* Connection c is inside get_unique_client_id or get_unique_game_id.
InAllocator(c) ==
    connections[c].at \in
        HoldsRngAt \cup {"client_id_lock_rng", "game_id_lock_rng"}

\* Both allocators take the RNG first and the registry second and hold
\* nothing outside: a connection holds a mutex exactly at the statements
\* between its lock() and the return.
LockDiscipline ==
    \A c \in Connections :
        /\ rng = c <=> connections[c].at \in HoldsRngAt
        /\ client_ids.guard = c <=> connections[c].at \in HoldsIdsAt
        /\ game_ids.guard = c <=> connections[c].at \in HoldsMapAt

\* While a connection is inside an allocator, some connection inside an
\* allocator can take a step: the holder of the RNG never waits for a
\* registry another connection holds.
AllocatorsNeverStuck ==
    (\E c \in Connections : InAllocator(c)) =>
        \E d \in Connections : InAllocator(d) /\ ENABLED AllocatorStep(d)

\* C39: no deadlock between the id allocators.  get_unique_client_id and
\* get_unique_game_id take the RNG lock first and the registry lock second
\* and release both on return, no interleaving of handshakes and table
\* creations leaves the allocators stuck, and every call returns: a
\* handshake reaches start_or_join_table with its client id, a table
\* creation ends with its game id.
C39_NoDeadlockBetweenAllocators ==
    /\ [](LockDiscipline /\ AllocatorsNeverStuck)
    /\ \A c \in Connections :
        /\ (connections[c].at = "client_id_lock_rng")
                ~> (connections[c].at = "start_or_join_table"
                    /\ connections[c].client_id # NoId)
        /\ (connections[c].at = "game_id_lock_rng")
                ~> (connections[c].at = "ended"
                    /\ connections[c].game_id # NoId)

\* One connection holds the RNG and draws game ids, a second waits for
\* the RNG at the start of get_unique_game_id and the third at the start
\* of get_unique_client_id.
C39_Witness ==
    \E a, b, c \in Connections :
        /\ connections[a].at = "game_id_loop"
        /\ rng = a /\ game_ids.guard = a
        /\ connections[b].at = "game_id_lock_rng"
        /\ connections[c].at = "client_id_lock_rng"

\* Every connection has left the allocators with the ids it asked for and
\* every mutex is free.
AllAllocationsReturned ==
    /\ \A c \in Connections :
            /\ connections[c].at = "ended"
            /\ connections[c].client_id # NoId
            /\ connections[c].game_id # NoId
    /\ rng = Nobody
    /\ client_ids.guard = Nobody
    /\ game_ids.guard = Nobody

====
